---- MODULE Spec2Model ----
(***************************************************************************)
(* Mailfile: a versioned file store kept in an append-only mail folder.    *)
(* The model follows src/mailfile/__init__.py: several Mailfile objects    *)
(* (clients, one per process) share one folder of an IMAP-like store.      *)
(* Each client keeps an index (_tree), the set of sequences it has         *)
(* examined (_seen) and a buffer of files not yet appended (_unwritten).   *)
(***************************************************************************)
EXTENDS Integers, FiniteSets, Sequences, TLC

\* ------------------------------------------------------------------ bounds
\* The store accepts at most MaxSeq appends; further appends are rejected.
MaxSeq == 3
\* A thread nests at most MaxDepth `with mailfile` blocks, and _sstack holds
\* at most MaxDepth saved configurations.
MaxDepth == 2
\* The threads start a write or a remove only while the sequences assigned
\* and the files staged number at most MaxWrites.
MaxWrites == 2
\* The processes that use a FilesystemIMAP directory issue at most MaxAppends
\* appends between them.
MaxAppends == 4
\* The application asks for a snapshot (synchronize(snapshot=True), remove)
\* only while fewer than MaxSnapshots snapshot files exist.
MaxSnapshots == 1

\* ------------------------------------------------------- program constants
\* synchronize writes a snapshot by itself once `distance` exceeds this.
SnapshotDistance == 20
\* metadata.get('versions', 1)
DefaultVersions == 1

Clients == {"A", "B"}
\* The threads of the process of client A, and the processes that use one
\* FilesystemIMAP directory
Threads == {"t1", "t2"}
Procs == {"P", "Q"}
UserPaths == {"p"}
\* Mailfile._SNAPSHOT_FILE_PATH
SnapPath == "Mailfile/metadata"
AllPaths == UserPaths \cup {SnapPath}

\* What an imap.append call can do: the store takes the message and says OK
\* ("OK"), the store refuses it ("NO"), or the store takes it and the client
\* gets an error all the same ("LOST").

VARIABLES
    store,      \* the folder: sequence -> stored message, for the messages present
    nextSeq,    \* the sequence the store gives to the next message it accepts
    tree,       \* tree[c]: path -> [seq, meta, versions]       (Mailfile._tree)
    seen,       \* seen[c]: sequences examined by client c       (Mailfile._seen)
    unwritten,  \* unwritten[c]: path -> file waiting for flush  (Mailfile._unwritten)
    buffering,  \* buffering[c]: config.buffering of client c
    log,        \* history: sequence -> path, for every append the store accepted
    cfg,        \* cfg[c]: the fields of Mailfile.config other than buffering
    sstack,     \* sstack[c]: the saved configurations              (Mailfile._sstack)
    lock,       \* lock[c]: owner and hold count of the RLock        (Mailfile._lock)
    pc,         \* pc[t]: the method of Mailfile thread t is inside, or "idle"
    blocks,     \* blocks[t]: for each `with` block thread t is in, the configuration and the staged paths at its entry
    files,      \* FilesystemIMAP: the directory of the folder, sequence -> message
    assigned,   \* history: how often FilesystemIMAP.append has given out each sequence
    appending,  \* appending[p]: the directory listing process p took in append, or "idle"
    capacity,   \* the number of messages the store accepts before it refuses appends
    unwritten_bytes, \* unwritten_bytes[c]: the running total of staged bytes (Mailfile._unwritten_bytes)
    input,      \* the arguments of a function that is examined by itself
    output      \* what the function returned for them

mfvars == <<store, nextSeq, tree, seen, unwritten, buffering, log>>
sessvars == <<cfg, sstack, lock, pc, blocks>>
fsvars == <<files, assigned, appending>>
auxvars == <<capacity, unwritten_bytes, input, output>>
vars == <<store, nextSeq, tree, seen, unwritten, buffering, log,
          cfg, sstack, lock, pc, blocks, files, assigned, appending,
          capacity, unwritten_bytes, input, output>>

\* ------------------------------------------------------------ dictionaries
EmptyDict == [x \in {} |-> 0]

Put(d, k, v) == [x \in DOMAIN d \cup {k} |-> IF x = k THEN v ELSE d[x]]

Del(d, k) == [x \in DOMAIN d \ {k} |-> d[x]]

\* dict.update: the entries of e override those of d
Update(d, e) == [x \in DOMAIN d \cup DOMAIN e |-> IF x \in DOMAIN e THEN e[x] ELSE d[x]]

Get(d, k, default) == IF k \in DOMAIN d THEN d[k] ELSE default

Max(S) == CHOOSE x \in S : \A y \in S : y <= x

\* A snapshot payload; user files carry the empty one.
NoSnap == [tree |-> EmptyDict, seen |-> {}]

\* ---------------------------------------------------------------- metadata
\* The metadata of a file is a dictionary.  The model carries the keys the
\* engine reads: `fn` (added by encode_object), `versions` and `deleted`.

\* _clean_metadata: drop the padding and the path
CleanMetadata(metadata) == Del(Del(metadata, "_"), "fn")

\* A variant of encode_object that stores the metadata and no contents
EncodeObjectBare(file_path, file) ==
    [meta |-> Update(file.meta, [fn |-> file_path]), snap |-> file.snap]

\* encode_object: the message stored for a file (fn is forced to the path,
\* and bytes to the length of the contents where the file carries them)
EncodeObject(file_path, file) ==
    IF "data" \in DOMAIN file
    THEN [meta |-> Update(file.meta, [fn |-> file_path, bytes |-> Len(file.data)]),
          snap |-> file.snap, data |-> file.data]
    ELSE [meta |-> Update(file.meta, [fn |-> file_path]), snap |-> file.snap]

\* What the caller of open(path, 'w') may change in handle.metadata before
\* it closes the handle: nothing, or the number of versions to keep.
MetaEdits(counts) == {EmptyDict} \cup {[versions |-> k] : k \in counts}

\* sorted(versions)[-wanted:]: the `wanted` highest when wanted > 0; a slice
\* that starts at index -wanted (0 for wanted = 0) otherwise.
LastWanted(versions, wanted) ==
    LET len == Cardinality(versions)
        start == IF wanted > 0
                 THEN (IF len - wanted > 0 THEN len - wanted ELSE 0)
                 ELSE (IF -wanted < len THEN -wanted ELSE len)
    IN {v \in versions : Cardinality({w \in versions : w < v}) >= start}

\* ---------------------------------------------------------- damaged messages
\* A message that Mailfile did not write, or that was damaged, carries a
\* `defect`.  The defects of the envelope and of the X-Mailfile header are
\* met by the header fetch of the scan, those of the body by _get_file.
HeaderDefects == {"fetch", "envelope", "base64", "json", "token"}
BodyDefects == {"body_fetch", "body_token", "body_zlib", "body_json"}

Defect(msg) == IF "defect" \in DOMAIN msg THEN msg.defect ELSE "none"

\* What the header fetch and _parse_message(headersonly=True) do with a
\* message (lines 257-262, 466-477): the store answers NO, or Python raises.
\*   no X-Mailfile header: None.strip()          -> AttributeError
\*   base64.b64decode, incorrect padding (Py 2)  -> TypeError
\*   json.loads of something that is not JSON    -> ValueError
\*   Fernet.decrypt with another key             -> InvalidToken
\*   config.fernet is None for a '!' header       -> AttributeError
HeaderError(msg) ==
    CASE Defect(msg) = "fetch" -> "NO"
      [] Defect(msg) = "envelope" -> "AttributeError"
      [] Defect(msg) = "base64" -> "TypeError"
      [] Defect(msg) = "json" -> "ValueError"
      [] Defect(msg) = "token" -> "InvalidToken"
      [] Defect(msg) = "fernet" -> "AttributeError"
      [] OTHER -> "none"

\* except (...) of the scan (lines 267-268)
CaughtInScan ==
    {"ValueError", "NameError", "AttributeError", "KeyError", "IndexError", "InvalidToken"}

\* What _get_file and the decoding of a snapshot do with a message
\* (lines 326-327, 509-514, 489-496): the full fetch is refused (OSError),
\* the body does not decrypt (InvalidToken), does not decompress
\* (zlib.error), or is not JSON (ValueError).
BodyError(msg) ==
    CASE Defect(msg) = "body_fetch" -> "OSError"
      [] Defect(msg) = "body_token" -> "InvalidToken"
      [] Defect(msg) = "body_zlib" -> "zlib.error"
      [] Defect(msg) = "body_json" -> "ValueError"
      [] OTHER -> "none"

\* except ValueError around _parse_snapshot (lines 279-282)
CaughtInSnapshot == {"ValueError"}

\* ------------------------------------------------------------------- flush
\* Mailfile.flush over the pending paths in the order the dictionary yields
\* them.  st = [store, next, un, happy]; oc gives the store's answer per path.
\* A full store rejects the append.
StoreAnswer(next, answer) == IF next > capacity THEN "NO" ELSE answer

\* A variant of FlushOne that forgets the file whatever the store answers.
FlushOneForgetting(st, file_path, answer) ==
    LET eff == StoreAnswer(st.next, answer)
        stored == IF eff \in {"OK", "LOST"}
                  THEN Put(st.store, st.next, EncodeObject(file_path, st.un[file_path]))
                  ELSE st.store
    IN [store |-> stored,
        next  |-> IF eff \in {"OK", "LOST"} THEN st.next + 1 ELSE st.next,
        un    |-> Del(st.un, file_path),
        happy |-> st.happy /\ eff = "OK"]

FlushOne(st, file_path, answer) ==
    LET eff == StoreAnswer(st.next, answer)
        stored == IF eff \in {"OK", "LOST"}
                  THEN Put(st.store, st.next, EncodeObject(file_path, st.un[file_path]))
                  ELSE st.store
    IN [store |-> stored,
        next  |-> IF eff \in {"OK", "LOST"} THEN st.next + 1 ELSE st.next,
        un    |-> IF eff = "OK" THEN Del(st.un, file_path) ELSE st.un,
        happy |-> st.happy /\ eff = "OK"]

\* A variant of FlushAll that gives up at the first append the store refuses.
RECURSIVE FlushAllStopping(_, _, _)
FlushAllStopping(st, order, oc) ==
    IF order = <<>> \/ ~st.happy THEN st
    ELSE FlushAllStopping(FlushOne(st, Head(order), oc[Head(order)]), Tail(order), oc)

RECURSIVE FlushAll(_, _, _)
FlushAll(st, order, oc) ==
    IF order = <<>> THEN st
    ELSE FlushAll(FlushOne(st, Head(order), oc[Head(order)]), Tail(order), oc)

\* The orders in which a dictionary with these keys may be walked.
Orders(keys) ==
    {o \in [1..Cardinality(keys) -> keys] : \A i, j \in DOMAIN o : i # j => o[i] # o[j]}

\* ---------------------------------------------------------- snapshot ingest
\* A variant of IngestEntry that takes the entry of the snapshot whatever
\* sequence the index has for the path.
IngestEntryAlways(t, file_path, e, existing) ==
    IF e.seq \notin existing THEN t
    ELSE Put(t, file_path, [seq |-> e.seq, meta |-> e.meta, versions |-> e.versions \cap existing])

\* _parse_snapshot, one entry of snapshot['tree'] (lines 329-337)
IngestEntry(t, file_path, e, existing) ==
    IF e.seq \notin existing THEN t
    ELSE LET versions == IF file_path \in DOMAIN t
                         THEN (e.versions \cap existing) \cup (t[file_path].versions \cap existing)
                         ELSE e.versions \cap existing
             merged == IF file_path \in DOMAIN t
                       THEN [t EXCEPT ![file_path].versions = @ \cup versions]
                       ELSE t
         IN IF file_path \notin DOMAIN merged \/ e.seq > merged[file_path].seq
            THEN Put(merged, file_path, [seq |-> e.seq, meta |-> e.meta, versions |-> versions])
            ELSE merged

RECURSIVE IngestTree(_, _, _, _)
IngestTree(t, snaptree, todo, existing) ==
    IF todo = {} THEN t
    ELSE LET file_path == CHOOSE fp \in todo : TRUE
         IN IngestTree(IngestEntry(t, file_path, snaptree[file_path], existing),
                       snaptree, todo \ {file_path}, existing)

\* A variant of ParseSnapshot that takes _seen from the snapshot and leaves
\* the index alone.
ParseSnapshotSeenOnly(st, seq, existing, folder) ==
    LET snapshot == folder[seq].snap
    IN [st EXCEPT !.seen = @ \cup (snapshot.seen \cap existing)]

\* _parse_snapshot(seq, existing): the snapshot is read through _get_file,
\* that is from the message the index names for the snapshot path.
ParseSnapshot(st, seq, existing, folder) ==
    LET snapshot == folder[seq].snap
    IN [st EXCEPT !.tree = IngestTree(st.tree, snapshot.tree, DOMAIN snapshot.tree, existing),
                  !.seen = @ \cup (snapshot.seen \cap existing)]

\* ------------------------------------------------------------ reverse scan
\* A variant of ScanOne that does not compare sequences: whatever message is
\* examined becomes the latest of its path.
ScanOneAnyOrder(st, seq, existing, ignore_snapshot, folder) ==
    LET metadata == folder[seq].meta
        file_path == metadata.fn
        st1 == [st EXCEPT !.seen = @ \cup {seq}, !.distance = @ + 1]
        versions == {seq} \cup (IF file_path \in DOMAIN st.tree
                                THEN st.tree[file_path].versions ELSE {})
        st2 == [st1 EXCEPT !.tree = Put(st.tree, file_path,
                   [seq |-> seq, meta |-> CleanMetadata(metadata), versions |-> versions])]
    IN IF file_path = SnapPath /\ ~ignore_snapshot
       THEN ParseSnapshot(st2, seq, existing, folder)
       ELSE st2

\* The index update of one turn (lines 272-282) for a message whose header
\* was fetched and decoded.  An exception of _parse_snapshot other than
\* ValueError leaves synchronize.
ScanGood(st, seq, existing, ignore_snapshot, folder) ==
    LET metadata == folder[seq].meta
        file_path == metadata.fn
        st1 == [st EXCEPT !.seen = @ \cup {seq}, !.distance = @ + 1, !.fetches = @ + 1,
                          !.peeked = Append(@, seq)]
    IN IF Get(st.tree, file_path, [seq |-> -1]).seq < seq
       THEN LET versions == {seq} \cup (IF file_path \in DOMAIN st.tree
                                        THEN st.tree[file_path].versions ELSE {})
                st2 == [st1 EXCEPT !.tree = Put(st.tree, file_path,
                           [seq |-> seq, meta |-> CleanMetadata(metadata), versions |-> versions])]
                st3 == [st2 EXCEPT !.fetches = @ + 1]
            IN IF file_path = SnapPath /\ ~ignore_snapshot
               THEN IF BodyError(folder[seq]) = "none"
                    THEN ParseSnapshot(st3, seq, existing, folder)
                    ELSE IF BodyError(folder[seq]) \in CaughtInSnapshot
                    THEN st3
                    ELSE [st3 EXCEPT !.raised = TRUE]
               ELSE st2
       ELSE st1

\* One turn of the loop of synchronize (lines 254-282).
\* st = [tree, seen, distance, broken, raised, fetches, peeked]; fetches
\* counts the FETCH commands sent: the header peek of every message examined
\* (line 257) and the full fetch of _get_file for a snapshot (line 509);
\* peeked lists the sequences of the header peeks in the order they were sent.
ScanOne(st, seq, existing, ignore_snapshot, folder) ==
    IF HeaderError(folder[seq]) = "none"
    THEN ScanGood(st, seq, existing, ignore_snapshot, folder)
    ELSE IF HeaderError(folder[seq]) \in {"NO"} \cup CaughtInScan
    THEN [st EXCEPT !.broken = @ \cup {seq}, !.fetches = @ + 1, !.peeked = Append(@, seq)]
    ELSE [st EXCEPT !.raised = TRUE, !.fetches = @ + 1, !.peeked = Append(@, seq)]

\* for seq in reversed(seqs): stop at the first sequence already in _seen
RECURSIVE Scan(_, _, _, _, _)
Scan(st, todo, existing, ignore_snapshot, folder) ==
    IF todo = {} THEN st
    ELSE LET seq == Max(todo)
         IN IF seq \in st.seen \/ st.raised THEN st
            ELSE Scan(ScanOne(st, seq, existing, ignore_snapshot, folder),
                      todo \ {seq}, existing, ignore_snapshot, folder)

\* ----------------------------------------------------------------- cleanup
\* The keepers of one index entry (lines 288-291)
KeepingVersions(entry, existing) ==
    existing \cap LastWanted(entry.versions \cup {entry.seq},
                             Get(entry.meta, "versions", DefaultVersions))

\* A variant of CleanTree that names the lowest keeper as the latest.
CleanTreeOldest(t, existing) ==
    LET kept == {fp \in DOMAIN t : KeepingVersions(t[fp], existing) # {}}
    IN [fp \in kept |->
          [seq |-> CHOOSE x \in KeepingVersions(t[fp], existing) :
                       \A y \in KeepingVersions(t[fp], existing) : x <= y,
           meta |-> t[fp].meta,
           versions |-> KeepingVersions(t[fp], existing)]]

\* The index after the cleanup loop (lines 287-297)
CleanTree(t, existing) ==
    LET kept == {fp \in DOMAIN t : KeepingVersions(t[fp], existing) # {}}
    IN [fp \in kept |->
          [seq |-> Max(KeepingVersions(t[fp], existing)),
           meta |-> t[fp].meta,
           versions |-> KeepingVersions(t[fp], existing)]]

Keeping(t, existing) == UNION {KeepingVersions(t[fp], existing) : fp \in DOMAIN t}

\* -------------------------------------------------------------------- open
\* The metadata a handle opened for writing starts with (open, lines 603-617):
\* that of the pending file, else that of the latest stored version without
\* its `deleted` flag, else none (no index entry, or the fetch fails).
OpenMeta(un, t, folder, file_path) ==
    IF file_path \in DOMAIN un THEN un[file_path].meta
    ELSE IF file_path \in DOMAIN t /\ t[file_path].seq \in DOMAIN folder
            /\ folder[t[file_path].seq].meta.fn = file_path
         THEN Del(CleanMetadata(folder[t[file_path].seq].meta), "deleted")
         ELSE EmptyDict

\* The file a handle leaves that was opened for writing and closed with
\* nothing written to it: where the contents of files are carried (the
\* metadata of the stored version has `bytes`), they are empty
Emptied(metadata) ==
    IF "bytes" \in DOMAIN metadata
    THEN [meta |-> metadata, snap |-> NoSnap, data |-> <<>>]
    ELSE [meta |-> metadata, snap |-> NoSnap]

\* The state a flush starts from
FlushState(folder, next, un) == [store |-> folder, next |-> next, un |-> un, happy |-> TRUE]

\* Every way a flush of the pending files `un` can end, the store answering
\* each append with one of `answers`
FlushResults(folder, next, un, answers) ==
    {FlushAll(FlushState(folder, next, un), order, oc) :
        order \in Orders(DOMAIN un), oc \in [DOMAIN un -> answers]}

\* A variant of SetFile whose flush empties the buffer whatever the store
\* answers.
SetFileEmptying(folder, next, un, file_path, file, buffered, answers) ==
    IF buffered
    THEN {FlushState(folder, next, Put(un, file_path, file))}
    ELSE {[f EXCEPT !.un = EmptyDict] :
             f \in FlushResults(folder, next, Put(un, file_path, file), answers)}

\* _set_file and _maybe_flush: stage the file, flush at once when buffering is off
SetFile(folder, next, un, file_path, file, buffered, answers) ==
    IF buffered
    THEN {FlushState(folder, next, Put(un, file_path, file))}
    ELSE FlushResults(folder, next, Put(un, file_path, file), answers)

\* open(path, 'w'), an optional change of handle.metadata, close
WriteResults(folder, next, cs, file_path, edit, buffered, answers) ==
    SetFile(folder, next, cs.un, file_path,
            [meta |-> Update(OpenMeta(cs.un, cs.tree, folder, file_path), edit),
             snap |-> NoSnap],
            buffered, answers)

\* ------------------------------------------------------------- synchronize
\* Mailfile.synchronize from a client state cs = [tree, seen, un] against the
\* folder: every way it can end, as records.  The answers of the store to the
\* appends, and to STORE and EXPUNGE, are the store's choice.
Restrict(d, keys) == [x \in DOMAIN d \cap keys |-> d[x]]

\* save_snapshot (lines 313-323): the index and _seen go to the snapshot path
SnapshotFile(un, t, sn, folder) ==
    [meta |-> OpenMeta(un, t, folder, SnapPath), snap |-> [tree |-> t, seen |-> sn]]

\* A variant of PruneSeen that keeps what the enumeration did not list.
PruneSeenUnlisted(sn, gone, existing) == sn \ gone

\* _seen after the cleanup (lines 306-309): less what was expunged, and
\* nothing the enumeration did not list
PruneSeen(sn, gone, existing) == (sn \ gone) \cap existing

\* The end of synchronize, from the cleanup on (lines 284-311).  f is the
\* flush that came first, sc the reverse scan; delok says whether STORE and
\* EXPUNGE both answered OK.  refetched is the sequence that the open(.., 'w')
\* of save_snapshot asks _get_file for (lines 320, 603-609): the snapshot the
\* index names, when none is pending.
SyncFinish(f, sc, existing, cleanup, snapshot, buffered, answers, delok) ==
    LET t == IF cleanup THEN CleanTree(sc.tree, existing) ELSE sc.tree
        to_delete == IF cleanup THEN sc.seen \ Keeping(sc.tree, existing) ELSE {}
        gone == IF to_delete # {} /\ delok THEN to_delete ELSE {}
        folder == Restrict(f.store, DOMAIN f.store \ gone)
        sn == PruneSeen(sc.seen, gone, existing)
        takes == snapshot # "False" /\ (sc.distance > SnapshotDistance \/ snapshot = "True")
        refetched == IF takes /\ SnapPath \notin DOMAIN f.un /\ SnapPath \in DOMAIN t
                     THEN {t[SnapPath].seq} ELSE {}
        base == [tree |-> t, seen |-> sn, existing |-> existing,
                 expunged |-> gone \cap existing, to_delete |-> to_delete,
                 flushed |-> f.store, scanned |-> sc.tree,
                 distance |-> sc.distance, raised |-> FALSE, broken |-> sc.broken,
                 fetches |-> sc.fetches, peeked |-> sc.peeked, reached |-> sc.seen,
                 refetched |-> refetched]
    IN IF takes
       THEN {base @@ [store |-> g.store, next |-> g.next, un |-> g.un] :
                g \in SetFile(folder, f.next, f.un, SnapPath,
                              SnapshotFile(f.un, t, sn, folder), buffered, answers)}
       ELSE {base @@ [store |-> folder, next |-> f.next, un |-> f.un]}

\* What synchronize leaves behind when an exception leaves it: the flush f
\* and whatever the scan sc did before
SyncAborted(f, sc, existing) ==
    [tree |-> sc.tree, seen |-> sc.seen, existing |-> existing,
     expunged |-> {}, to_delete |-> {}, flushed |-> f.store, scanned |-> sc.tree,
     distance |-> sc.distance, raised |-> TRUE, broken |-> sc.broken,
     fetches |-> sc.fetches, peeked |-> sc.peeked, reached |-> sc.seen,
     refetched |-> {}, store |-> f.store, next |-> f.next, un |-> f.un]

\* synchronize after its flush f (lines 237-311)
SyncFrom(f, cs, cleanup, snapshot, ignore_snapshot, buffered, answers) ==
    LET existing == DOMAIN f.store
        sc == Scan([tree |-> cs.tree, seen |-> cs.seen, distance |-> 0,
                    broken |-> {}, raised |-> FALSE, fetches |-> 0, peeked |-> <<>>],
                   existing, existing, ignore_snapshot, f.store)
        asks == cleanup /\ sc.seen \ Keeping(sc.tree, existing) # {}
    IN IF sc.raised
       THEN {SyncAborted(f, sc, existing)}
       ELSE UNION {SyncFinish(f, sc, existing, cleanup, snapshot, buffered, answers, delok) :
                      delok \in IF asks THEN BOOLEAN ELSE {TRUE}}

SyncResults(folder, next, cs, cleanup, snapshot, ignore_snapshot, buffered, answers) ==
    UNION {SyncFrom(f, cs, cleanup, snapshot, ignore_snapshot, buffered, answers) :
              f \in FlushResults(folder, next, cs.un, answers)}

\* ------------------------------------------------------------------ remove
\* open(path, 'r', version) as remove uses it (lines 588, 603-616): it fails
\* when the version is unknown, cannot be fetched, names another path or is a
\* tombstone.
CanRead(folder, entry, file_path, version) ==
    /\ version \in entry.versions
    /\ version \in DOMAIN folder
    /\ folder[version].meta.fn = file_path
    /\ ~Get(folder[version].meta, "deleted", FALSE)

\* What remove leaves behind when it raises
Raised(folder, next, t, sn, un) ==
    [store |-> folder, next |-> next, tree |-> t, seen |-> sn, un |-> un, raised |-> TRUE]

\* remove of a file that keeps more than one version: a tombstone is written
\* and synchronize(snapshot=True) follows (lines 565-568)
RemoveTombstone(folder, next, cs, un, file_path, buffered, answers) ==
    UNION {SyncResults(f.store, f.next, [tree |-> cs.tree, seen |-> cs.seen, un |-> f.un],
                       FALSE, "True", FALSE, buffered, answers) :
              f \in SetFile(folder, next, un, file_path,
                            Emptied(Update(OpenMeta(un, cs.tree, folder, file_path),
                                           [deleted |-> TRUE])),
                            buffered, answers)}

\* remove of the versions vs of an entry (lines 570-594); answer is what the
\* store said to STORE and EXPUNGE: both OK, STORE refused ("NO"), or STORE
\* accepted and EXPUNGE refused ("NOEXP", which remove does not look at).
RemoveVersions(folder, next, cs, un, file_path, vs, buffered, answers, answer) ==
    LET finfo == cs.tree[file_path]
        folder1 == IF answer = "OK" THEN Restrict(folder, DOMAIN folder \ vs) ELSE folder
        left == finfo.versions \ vs
        shrunk == [cs.tree EXCEPT ![file_path].versions = left]
        t1 == IF left = {} THEN Del(cs.tree, file_path)
              ELSE Put(cs.tree, file_path,
                       [seq |-> Max(left),
                        meta |-> CleanMetadata(CleanMetadata(folder1[Max(left)].meta)),
                        versions |-> left])
    IN IF ~(vs \subseteq finfo.versions) \/ answer = "NO"
       THEN {Raised(folder, next, cs.tree, cs.seen, un)}
       ELSE IF left # {} /\ ~CanRead(folder1, shrunk[file_path], file_path, Max(left))
       THEN {Raised(folder1, next, shrunk, cs.seen, un)}
       ELSE SyncResults(folder1, next, [tree |-> t1, seen |-> cs.seen, un |-> un],
                        TRUE, "True", FALSE, buffered, answers)

\* Mailfile.remove(file_path, versions); versions = {} stands for None
RemoveResults(folder, next, cs, file_path, versions, buffered, answers, answer) ==
    LET un == Del(cs.un, file_path)
    IN IF file_path \notin DOMAIN cs.tree
       THEN {Raised(folder, next, cs.tree, cs.seen, un)}
       ELSE IF Get(cs.tree[file_path].meta, "versions", DefaultVersions) > 1 /\ versions = {}
       THEN RemoveTombstone(folder, next, cs, un, file_path, buffered, answers)
       ELSE RemoveVersions(folder, next, cs, un, file_path,
                           IF versions = {} THEN cs.tree[file_path].versions ELSE versions,
                           buffered, answers, answer)

\* ----------------------------------------------------------- configuration
\* Mailfile_Config.__init__ (lines 162-178): the eight fields, in the order
\* of the arguments
MailfileConfig(buffering_max_bytes, buffer, subject, email_to, email_from, encrypt, fernet, key) ==
    [buffering_max_bytes |-> buffering_max_bytes, buffering |-> buffer,
     subject |-> subject, email_to |-> email_to, email_from |-> email_from,
     encrypt |-> encrypt, fernet |-> fernet, key |-> key]

\* Mailfile_Config._Copy (lines 155-160)
Copy(obj) ==
    MailfileConfig(obj.buffering_max_bytes, obj.buffering,
                   obj.subject, obj.email_to, obj.email_from,
                   obj.encrypt, obj.fernet, obj.key)

\* The defaults of Mailfile_Config.__init__, less buffering, which the
\* variable `buffering` holds
DefaultConfig ==
    [buffering_max_bytes |-> 102400, subject |-> "[Mailfile] File Storage",
     email_to |-> ".. <to@mailfile.example>", email_from |-> ".. <from@mailfile.example>",
     encrypt |-> FALSE, fernet |-> "None", key |-> "None"]

\* threading.RLock, not held
Unlocked == [owner |-> "none", count |-> 0]

\* The configuration object of a client, and the part of one that cfg holds
ConfigOf(rest, buffer) == rest @@ [buffering |-> buffer]
RestOf(config) == [f \in DOMAIN config \ {"buffering"} |-> config[f]]

\* set_encryption_key (lines 422-433): key is the hash of the argument
SetKey(config, key) ==
    [config EXCEPT !.key = "sha256 " \o key, !.fernet = "Fernet sha256 " \o key,
                   !.encrypt = TRUE]

\* ----------------------------------------------------------- FilesystemIMAP
\* The directory of one folder: files maps the sequence in the name of each
\* file of cur/ (_fn_fmt, _fn_parse) to the message written to it.
Appends == 1..MaxAppends
NotAppending == [at |-> "idle", seq |-> 0, message |-> 0, began |-> 0]

\* append up to the choice of the file name (backends.py lines 70-77)
NewSeq(listed) == IF listed # {} THEN Max(listed) + 1 ELSE 1

\* open(newfn, 'w') and write: a file of that name is replaced
WriteFile(dir, seq, message) == Put(dir, seq, message)

\* store +FLAGS (\Deleted): the files of the listed sequences are removed
RemoveFiles(dir, seqs) == Restrict(dir, DOMAIN dir \ seqs)

\* ---------------------------------------------------------------- sessions
\* A variant of CanAcquire that never blocks.
CanAcquireAnyway(l, t) == TRUE

\* RLock.acquire blocks while another thread holds the lock
CanAcquire(l, t) == l.owner \in {"none", t}

Acquire(l, t) == [owner |-> t, count |-> l.count + 1]

\* RLock.release, n times
Release(l, n) == IF l.count <= n THEN Unlocked ELSE [l EXCEPT !.count = @ - n]

\* synchronize() as __enter__ and __exit__ call it: it flushes, and then
\* either goes on (the folder can be selected and searched) or raises
\* IOError (lines 236-246)
SyncOrFail(folder, next, cs, buffered, answers, reachable) ==
    IF reachable
    THEN SyncResults(folder, next, cs, FALSE, "None", FALSE, buffered, answers)
    ELSE {[tree |-> cs.tree, seen |-> cs.seen, raised |-> TRUE, flushed |-> f.store,
           store |-> f.store, next |-> f.next, un |-> f.un] :
             f \in FlushResults(folder, next, cs.un, answers)}

\* Mailfile.__enter__ after the lock was acquired (lines 206-209): the
\* configuration is saved and buffering turned on, then synchronize runs.
\* When synchronize raises, the `with` block is not entered.
EnterResults(folder, next, cs, config, stack, answers, reachable) ==
    {[sync |-> r, config |-> [config EXCEPT !.buffering = TRUE],
      sstack |-> Append(stack, Copy(config)), completed |-> ~r.raised] :
        r \in SyncOrFail(folder, next, cs, TRUE, answers, reachable)}

\* Mailfile.__exit__ (lines 211-214): synchronize, then the configuration is
\* popped and the lock released, unless synchronize raised.
ExitResults(folder, next, cs, config, stack, answers, reachable) ==
    {[sync |-> r,
      config |-> IF r.raised THEN config ELSE stack[Len(stack)],
      sstack |-> IF r.raised THEN stack ELSE SubSeq(stack, 1, Len(stack) - 1),
      completed |-> ~r.raised] :
        r \in SyncOrFail(folder, next, cs, config.buffering, answers, reachable)}

\* ------------------------------------------------------------------ actions
ClientState(c) == [tree |-> tree[c], seen |-> seen[c], un |-> unwritten[c]]

\* The paths of the messages the folder gained
Logged(folder) == [s \in DOMAIN folder \ DOMAIN log |-> folder[s].meta.fn]

\* The number of snapshot files that exist, stored or pending
Snapshots ==
    Cardinality({s \in DOMAIN store : store[s].meta.fn = SnapPath})
    + Cardinality({c \in Clients : SnapPath \in DOMAIN unwritten[c]})

\* Nothing is being examined by itself
Nothing == [kind |-> "none"]

\* The state after the construction of the clients, over an empty folder of
\* a store with room for `room` messages
Constructed(room) ==
    /\ store = EmptyDict
    /\ nextSeq = 1
    /\ tree = [c \in Clients |-> EmptyDict]
    /\ seen = [c \in Clients |-> {}]
    /\ unwritten = [c \in Clients |-> EmptyDict]
    /\ buffering = [c \in Clients |-> c = "B"]
    /\ log = EmptyDict
    /\ cfg = [c \in Clients |-> DefaultConfig]
    /\ sstack = [c \in Clients |-> <<>>]
    /\ lock = [c \in Clients |-> Unlocked]
    /\ pc = [t \in Threads |-> "idle"]
    /\ blocks = [t \in Threads |-> <<>>]
    /\ files = EmptyDict
    /\ assigned = EmptyDict
    /\ appending = [p \in Procs |-> NotAppending]
    /\ capacity = room
    /\ unwritten_bytes = [c \in Clients |-> 0]

Init ==
    /\ Constructed(MaxSeq)
    /\ input = Nothing
    /\ output = Nothing

Write(c, file_path, edit, answers) ==
    \E f \in WriteResults(store, nextSeq, ClientState(c), file_path, edit, buffering[c], answers) :
        /\ store' = f.store
        /\ nextSeq' = f.next
        /\ unwritten' = [unwritten EXCEPT ![c] = f.un]
        /\ log' = Update(log, Logged(f.store))
        /\ UNCHANGED <<tree, seen, buffering, sessvars, fsvars, auxvars>>

\* Mailfile.flush, called by the application
Flush(c, answers) ==
    /\ unwritten[c] # EmptyDict
    /\ \E f \in FlushResults(store, nextSeq, unwritten[c], answers) :
          /\ store' = f.store
          /\ nextSeq' = f.next
          /\ unwritten' = [unwritten EXCEPT ![c] = f.un]
          /\ log' = Update(log, Logged(f.store))
          /\ UNCHANGED <<tree, seen, buffering, sessvars, fsvars, auxvars>>

Sync(c, cleanup, snapshot, ignore_snapshot, answers) ==
    /\ snapshot = "True" => Snapshots < MaxSnapshots
    /\ \E r \in SyncResults(store, nextSeq, ClientState(c), cleanup, snapshot,
                            ignore_snapshot, buffering[c], answers) :
          /\ store' = r.store
          /\ nextSeq' = r.next
          /\ tree' = [tree EXCEPT ![c] = r.tree]
          /\ seen' = [seen EXCEPT ![c] = r.seen]
          /\ unwritten' = [unwritten EXCEPT ![c] = r.un]
          /\ log' = Update(Update(log, Logged(r.flushed)), Logged(r.store))
          /\ UNCHANGED <<buffering, sessvars, fsvars, auxvars>>

Remove(c, file_path, versions, answers, answer) ==
    /\ Snapshots < MaxSnapshots
    /\ \E r \in RemoveResults(store, nextSeq, ClientState(c), file_path, versions,
                              buffering[c], answers, answer) :
          /\ store' = r.store
          /\ nextSeq' = r.next
          /\ tree' = [tree EXCEPT ![c] = r.tree]
          /\ seen' = [seen EXCEPT ![c] = r.seen]
          /\ unwritten' = [unwritten EXCEPT ![c] = r.un]
          /\ log' = Update(IF r.raised THEN log ELSE Update(log, Logged(r.flushed)),
                           Logged(r.store))
          /\ UNCHANGED <<buffering, sessvars, fsvars, auxvars>>

\* Something other than this Mailfile puts a message into the folder, or a
\* message of the folder is damaged in storage: the next fetch of it finds
\* the defect.
Deliver(msg) ==
    /\ nextSeq <= MaxSeq
    /\ store' = Put(store, nextSeq, msg)
    /\ nextSeq' = nextSeq + 1
    /\ log' = Put(log, nextSeq, msg.meta.fn)
    /\ UNCHANGED <<tree, seen, unwritten, buffering, sessvars, fsvars, auxvars>>

\* ------------------------------------------------------- threads of client A
\* The threads share the Mailfile object of client A.  A method that takes
\* the lock is two steps: Begin acquires the lock, the End step does the
\* rest of the method and releases.
Shared == "A"
RetryPaths == {"p", "q"}
\* The files staged in the write buffers
Pending == Cardinality({<<c, fp>> \in Clients \X RetryPaths : fp \in DOMAIN unwritten[c]})
LockedMethods == {"flush", "synchronize", "close", "remove", "__enter__", "__exit__"}

ApplySync(r) ==
    /\ store' = r.store
    /\ nextSeq' = r.next
    /\ tree' = [tree EXCEPT ![Shared] = r.tree]
    /\ seen' = [seen EXCEPT ![Shared] = r.seen]
    /\ unwritten' = [unwritten EXCEPT ![Shared] = r.un]
    /\ log' = Update(Update(log, Logged(r.flushed)), Logged(r.store))

\* `with self._lock:` at the head of the method (acquire in __enter__; in
\* __exit__ the lock is taken by the synchronize it starts with)
Begin(t, method) ==
    /\ pc[t] = "idle"
    /\ method = "__enter__" => Len(blocks[t]) < MaxDepth /\ Len(sstack[Shared]) < MaxDepth
    /\ method = "__exit__" => blocks[t] # <<>>
    /\ method = "flush" => unwritten[Shared] # EmptyDict
    /\ method = "remove" => Snapshots < MaxSnapshots
    /\ method \in {"close", "remove"} => nextSeq + Pending <= MaxWrites
    /\ CanAcquire(lock[Shared], t)
    /\ lock' = [lock EXCEPT ![Shared] = Acquire(@, t)]
    /\ pc' = [pc EXCEPT ![t] = method]
    /\ UNCHANGED <<mfvars, cfg, sstack, blocks, fsvars, auxvars>>

EndFlush(t, answers) ==
    /\ pc[t] = "flush"
    /\ \E f \in FlushResults(store, nextSeq, unwritten[Shared], answers) :
          /\ store' = f.store
          /\ nextSeq' = f.next
          /\ unwritten' = [unwritten EXCEPT ![Shared] = f.un]
          /\ log' = Update(log, Logged(f.store))
    /\ lock' = [lock EXCEPT ![Shared] = Release(@, 1)]
    /\ pc' = [pc EXCEPT ![t] = "idle"]
    /\ UNCHANGED <<tree, seen, buffering, cfg, sstack, blocks, fsvars, auxvars>>

EndSynchronize(t, answers, reachable) ==
    /\ pc[t] = "synchronize"
    /\ \E r \in SyncOrFail(store, nextSeq, ClientState(Shared), buffering[Shared],
                           answers, reachable) : ApplySync(r)
    /\ lock' = [lock EXCEPT ![Shared] = Release(@, 1)]
    /\ pc' = [pc EXCEPT ![t] = "idle"]
    /\ UNCHANGED <<buffering, cfg, sstack, blocks, fsvars, auxvars>>

\* close of a handle opened for writing: _set_file
EndClose(t, file_path, answers) ==
    /\ pc[t] = "close"
    /\ \E f \in WriteResults(store, nextSeq, ClientState(Shared), file_path, EmptyDict,
                             buffering[Shared], answers) :
          /\ store' = f.store
          /\ nextSeq' = f.next
          /\ unwritten' = [unwritten EXCEPT ![Shared] = f.un]
          /\ log' = Update(log, Logged(f.store))
    /\ lock' = [lock EXCEPT ![Shared] = Release(@, 1)]
    /\ pc' = [pc EXCEPT ![t] = "idle"]
    /\ UNCHANGED <<tree, seen, buffering, cfg, sstack, blocks, fsvars, auxvars>>

\* remove(file_path): the whole file, the store obeying STORE and EXPUNGE
EndRemove(t, file_path, answers) ==
    /\ pc[t] = "remove"
    /\ \E r \in RemoveResults(store, nextSeq, ClientState(Shared), file_path, {},
                              buffering[Shared], answers, "OK") :
          /\ store' = r.store
          /\ nextSeq' = r.next
          /\ tree' = [tree EXCEPT ![Shared] = r.tree]
          /\ seen' = [seen EXCEPT ![Shared] = r.seen]
          /\ unwritten' = [unwritten EXCEPT ![Shared] = r.un]
          /\ log' = Update(IF r.raised THEN log ELSE Update(log, Logged(r.flushed)),
                           Logged(r.store))
    /\ lock' = [lock EXCEPT ![Shared] = Release(@, 1)]
    /\ pc' = [pc EXCEPT ![t] = "idle"]
    /\ UNCHANGED <<buffering, cfg, sstack, blocks, fsvars, auxvars>>

\* __enter__: the lock stays held, also when synchronize raises
EndEnter(t, answers, reachable) ==
    /\ pc[t] = "__enter__"
    /\ \E e \in EnterResults(store, nextSeq, ClientState(Shared),
                             ConfigOf(cfg[Shared], buffering[Shared]), sstack[Shared],
                             answers, reachable) :
          /\ ApplySync(e.sync)
          /\ buffering' = [buffering EXCEPT ![Shared] = e.config.buffering]
          /\ cfg' = [cfg EXCEPT ![Shared] = RestOf(e.config)]
          /\ sstack' = [sstack EXCEPT ![Shared] = e.sstack]
          /\ blocks' = IF e.completed
                       THEN [blocks EXCEPT ![t] =
                               Append(@, [config |-> ConfigOf(cfg[Shared], buffering[Shared]),
                                          staged |-> DOMAIN e.sync.un])]
                       ELSE blocks
    /\ pc' = [pc EXCEPT ![t] = "idle"]
    /\ UNCHANGED <<lock, fsvars, auxvars>>

\* __exit__: the `with` block is left either way; the lock taken by
\* synchronize is released, that of __enter__ only when synchronize returned
EndExit(t, answers, reachable) ==
    /\ pc[t] = "__exit__"
    /\ \E e \in ExitResults(store, nextSeq, ClientState(Shared),
                            ConfigOf(cfg[Shared], buffering[Shared]), sstack[Shared],
                            answers, reachable) :
          /\ ApplySync(e.sync)
          /\ buffering' = [buffering EXCEPT ![Shared] = e.config.buffering]
          /\ cfg' = [cfg EXCEPT ![Shared] = RestOf(e.config)]
          /\ sstack' = [sstack EXCEPT ![Shared] = e.sstack]
          /\ lock' = [lock EXCEPT ![Shared] = Release(@, IF e.completed THEN 2 ELSE 1)]
    /\ blocks' = [blocks EXCEPT ![t] = SubSeq(@, 1, Len(@) - 1)]
    /\ pc' = [pc EXCEPT ![t] = "idle"]
    /\ UNCHANGED <<fsvars, auxvars>>

\* set_encryption_key, and an assignment to config.buffering, by a thread
\* inside its `with` block: neither takes the lock
SetEncryptionKey(t, key) ==
    /\ pc[t] = "idle"
    /\ blocks[t] # <<>>
    /\ cfg[Shared].key # SetKey(cfg[Shared], key).key
    /\ cfg' = [cfg EXCEPT ![Shared] = SetKey(@, key)]
    /\ UNCHANGED <<mfvars, sstack, lock, pc, blocks, fsvars, auxvars>>

SetBuffering(t, buffer) ==
    /\ pc[t] = "idle"
    /\ blocks[t] # <<>>
    /\ buffering[Shared] # buffer
    /\ buffering' = [buffering EXCEPT ![Shared] = buffer]
    /\ UNCHANGED <<store, nextSeq, tree, seen, unwritten, log, sessvars, fsvars, auxvars>>

\* ------------------------------------------------- FilesystemIMAP processes
\* Each process has its own FilesystemIMAP object over the same directory,
\* and so its own lock: an append of one process is two steps for the others,
\* the listing of the directory and the writing of the file.
AppendList(p, message) ==
    /\ appending[p] = NotAppending
    /\ \A i \in 1..Len(assigned) : assigned[i].message # message
    /\ \A q \in Procs : appending[q].message # message
    /\ appending' = [appending EXCEPT ![p] = [at |-> "listed", seq |-> NewSeq(DOMAIN files),
                                              message |-> message, began |-> Len(assigned)]]
    /\ UNCHANGED <<mfvars, sessvars, files, assigned, auxvars>>

AppendWrite(p) ==
    /\ appending[p].at = "listed"
    /\ files' = WriteFile(files, appending[p].seq, appending[p].message)
    /\ assigned' = Append(assigned, [seq |-> appending[p].seq, message |-> appending[p].message,
                                     began |-> appending[p].began])
    /\ appending' = [appending EXCEPT ![p] = NotAppending]
    /\ UNCHANGED <<mfvars, sessvars, auxvars>>

\* FilesystemIMAP.store(message_set, '+FLAGS', '(\Deleted)')
StoreDeleted(seqs) ==
    /\ seqs \cap DOMAIN files # {}
    /\ files' = RemoveFiles(files, seqs)
    /\ UNCHANGED <<mfvars, sessvars, assigned, appending, auxvars>>

\* The process of client c dies and a new Mailfile object is made (__init__)
Restart(c) ==
    /\ tree[c] # EmptyDict \/ seen[c] # {} \/ unwritten[c] # EmptyDict
    /\ tree' = [tree EXCEPT ![c] = EmptyDict]
    /\ seen' = [seen EXCEPT ![c] = {}]
    /\ unwritten' = [unwritten EXCEPT ![c] = EmptyDict]
    /\ unwritten_bytes' = [unwritten_bytes EXCEPT ![c] = 0]
    /\ UNCHANGED <<store, nextSeq, buffering, log, sessvars, fsvars, capacity, input, output>>

\* Appending clients: writes, flushes, synchronize in all its forms, crashes.
Next ==
    \E c \in Clients :
        \/ \E edit \in MetaEdits({2}) : Write(c, "p", edit, {"OK", "LOST"})
        \/ Flush(c, {"OK", "LOST"})
        \/ \E cleanup \in BOOLEAN, snapshot \in {"None", "True"}, ignore_snapshot \in BOOLEAN :
              Sync(c, cleanup, snapshot, ignore_snapshot, {"OK", "LOST"})
        \/ Restart(c)

Spec == Init /\ [][Next]_vars

\* Clients that also remove files and versions; the store answers every
\* append with OK while it has room.
RemoveCalls == {{}} \cup {{v} : v \in 1..MaxSeq}

NextRemove ==
    \E c \in Clients :
        \/ \E edit \in MetaEdits({2}) : Write(c, "p", edit, {"OK"})
        \/ Flush(c, {"OK"})
        \/ \E cleanup \in BOOLEAN, snapshot \in {"None", "True"}, ignore_snapshot \in BOOLEAN :
              Sync(c, cleanup, snapshot, ignore_snapshot, {"OK"})
        \/ \E versions \in RemoveCalls, answer \in {"OK", "NO", "NOEXP"} :
              Remove(c, "p", versions, {"OK"}, answer)

SpecRemove == Init /\ [][NextRemove]_vars

\* Files whose metadata asks for no, one or two versions; no snapshots.
NextCounts ==
    \E c \in Clients :
        \/ \E edit \in MetaEdits({0, 2}) : Write(c, "p", edit, {"OK"})
        \/ Flush(c, {"OK"})
        \/ \E cleanup \in BOOLEAN : Sync(c, cleanup, "None", FALSE, {"OK"})

SpecCounts == Init /\ [][NextCounts]_vars

\* A folder that also holds messages the scan cannot read: user files with
\* a defect of the envelope or header, snapshots with a defect of the body.
DamagedMessages ==
    {[meta |-> [fn |-> "p"], snap |-> NoSnap, defect |-> d] : d \in HeaderDefects}
    \cup {[meta |-> [fn |-> SnapPath], snap |-> NoSnap, defect |-> d] : d \in BodyDefects}

NextBroken ==
    \/ \E c \in Clients :
          \/ Write(c, "p", EmptyDict, {"OK"})
          \/ Flush(c, {"OK"})
          \/ \E cleanup \in BOOLEAN : Sync(c, cleanup, "None", FALSE, {"OK"})
    \/ \E msg \in DamagedMessages : Deliver(msg)

SpecBroken == Init /\ [][NextBroken]_vars

\* Two files, and a store that refuses appends now and then but has room
\* for every file written; a flush that the store accepts stays possible.

NextRetry ==
    \E c \in Clients :
        \/ \E fp \in RetryPaths :
              /\ nextSeq + Pending <= MaxSeq
              /\ Write(c, fp, EmptyDict, {"OK", "NO"})
        \/ Flush(c, {"OK", "NO"})
        \/ Sync(c, FALSE, "None", FALSE, {"OK", "NO"})

SpecRetry ==
    /\ Init /\ [][NextRetry]_vars
    /\ \A c \in Clients : WF_vars(Flush(c, {"OK"}))

\* Two threads of one process use the Mailfile object of client A, in and
\* out of `with` blocks; the store may refuse appends and may be unreachable.
NextSession ==
    \E t \in Threads :
        \/ \E method \in LockedMethods : Begin(t, method)
        \/ EndFlush(t, {"OK", "NO"})
        \/ \E reachable \in BOOLEAN : EndSynchronize(t, {"OK", "NO"}, reachable)
        \/ \E fp \in RetryPaths : EndClose(t, fp, {"OK", "NO"})
        \/ EndRemove(t, "p", {"OK", "NO"})
        \/ \E reachable \in BOOLEAN : EndEnter(t, {"OK", "NO"}, reachable)
        \/ \E reachable \in BOOLEAN : EndExit(t, {"OK", "NO"}, reachable)
        \/ SetEncryptionKey(t, "k")
        \/ \E buffer \in BOOLEAN : SetBuffering(t, buffer)

SpecSession == Init /\ [][NextSession]_vars

\* One process appends to and deletes from a FilesystemIMAP folder.
NextFilesystem ==
    \/ \E message \in Appends : AppendList("P", message)
    \/ AppendWrite("P")
    \/ \E seq \in Appends : StoreDeleted({seq})

SpecFilesystem == Init /\ [][NextFilesystem]_vars

\* Two processes append to the same folder; nothing is deleted.
NextShared ==
    \E p \in Procs :
        \/ \E message \in Appends : AppendList(p, message)
        \/ AppendWrite(p)

SpecShared == Init /\ [][NextShared]_vars

TypeOK ==
    /\ nextSeq \in 1..(MaxSeq + 1)
    /\ DOMAIN store \subseteq 1..(nextSeq - 1)
    /\ DOMAIN log = 1..(nextSeq - 1)
    /\ \A c \in Clients : DOMAIN tree[c] \subseteq AllPaths \cup RetryPaths /\ seen[c] \subseteq 1..MaxSeq

\* ------------------------------------------------------------------ claims
\* The calls of synchronize the claims range over, and their results from
\* the present state.  snapshot=False differs from snapshot=None only once a
\* scan has examined more than SnapshotDistance messages, which a store of
\* MaxSeq messages never holds.
SyncCalls ==
    [cleanup : BOOLEAN, snapshot : {"None", "True"}, ignore_snapshot : BOOLEAN]

ResultsOf(c, call) ==
    SyncResults(store, nextSeq, ClientState(c), call.cleanup, call.snapshot,
                call.ignore_snapshot, buffering[c], {"OK", "LOST"})

\* The messages of a path among the enumerated ones
PathSeqs(folder, existing, file_path) ==
    {s \in existing : folder[s].meta.fn = file_path}

\* C1 (last writer wins): when a synchronize of any client returns, every
\* path with a message in that synchronize's enumeration has an index entry,
\* whose latest_seq is the highest sequence enumerated for the path and whose
\* metadata is the metadata of that message; no other path has an entry.
LastWriterWins ==
    \A c \in Clients : \A call \in SyncCalls : \A r \in ResultsOf(c, call) :
        \A file_path \in AllPaths :
            LET seqs == PathSeqs(r.flushed, r.existing, file_path)
            IN IF seqs = {} THEN file_path \notin DOMAIN r.tree
               ELSE /\ file_path \in DOMAIN r.tree
                    /\ r.tree[file_path].seq = Max(seqs)
                    /\ r.tree[file_path].meta = CleanMetadata(r.flushed[Max(seqs)].meta)

\* A state in which the later of two stored versions of p, written by a
\* client that synchronized between them, is the latest of an index.
LastWriterWinsWitness ==
    \E c \in Clients :
        /\ {1, 2} \subseteq DOMAIN store
        /\ store[1].meta.fn = "p" /\ store[2].meta.fn = "p"
        /\ "p" \in DOMAIN tree[c]
        /\ tree[c]["p"].seq = 2
        /\ tree[c]["p"].meta = CleanMetadata(store[2].meta)
        /\ store[1].meta # store[2].meta

\* C2 (crash safety of writes): when a synchronize of any client returns,
\* every append the store had accepted before its enumeration, whether or not
\* the writer was told so, is covered: the index has an entry for the path of
\* the append, with latest_seq at or above the sequence of the append.
CrashSafety ==
    \A c \in Clients : \A call \in SyncCalls : \A r \in ResultsOf(c, call) :
        \A s \in DOMAIN log \cup DOMAIN r.flushed :
            LET file_path == IF s \in DOMAIN log THEN log[s] ELSE r.flushed[s].meta.fn
            IN /\ file_path \in DOMAIN r.tree
               /\ r.tree[file_path].seq >= s

\* Client A, which writes without buffering, still holds a file the store has
\* room for: the answer to its append was lost.  The message is stored, and
\* the index of B, which synchronized afterwards, names it.
CrashSafetyWitness ==
    /\ "p" \in DOMAIN unwritten["A"]
    /\ nextSeq <= MaxSeq
    /\ "p" \in DOMAIN tree["B"]
    /\ tree["B"]["p"].seq \in DOMAIN store
    /\ store[tree["B"]["p"].seq] = EncodeObject("p", unwritten["A"]["p"])
    /\ tree["A"] = EmptyDict

\* One client opens file_path for writing, closes it and flushes, the store
\* answering OK: every way that can end
WriteFlush(folder, next, cs, file_path, edit, buffered) ==
    UNION {FlushResults(w.store, w.next, w.un, {"OK"}) :
              w \in WriteResults(folder, next, cs, file_path, edit, buffered, {"OK"})}

\* The sequences of the messages for file_path that `after` has and `before` lacks
NewSeqs(before, after, file_path) ==
    {s \in DOMAIN after \ DOMAIN before : after[s].meta.fn = file_path}

\* C3 (two-writer last wins): from any state, when A writes p and flushes,
\* then B writes p and flushes, with no synchronize in between, and then
\* either client synchronizes (without cleanup), the index of that client
\* has B's message as the latest of p and A's message in the version set of p.
TwoWriterLastWins ==
    \A e1 \in MetaEdits({2}), e2 \in MetaEdits({2}) :
        \A a \in WriteFlush(store, nextSeq, ClientState("A"), "p", e1, buffering["A"]) :
            \A b \in WriteFlush(a.store, a.next, ClientState("B"), "p", e2, buffering["B"]) :
                LET sa == NewSeqs(store, a.store, "p")
                    sb == NewSeqs(a.store, b.store, "p")
                IN (sa # {} /\ sb # {}) =>
                   \A c \in Clients : \A call \in SyncCalls :
                       ~call.cleanup =>
                       \A r \in SyncResults(b.store, b.next,
                                            [tree |-> tree[c], seen |-> seen[c],
                                             un |-> IF c = "A" THEN a.un ELSE b.un],
                                            FALSE, call.snapshot, call.ignore_snapshot,
                                            buffering[c], {"OK"}) :
                           /\ "p" \in DOMAIN r.tree
                           /\ r.tree["p"].seq = Max(sb)
                           /\ sa \subseteq r.tree["p"].versions

\* The results of a synchronize of client c that leaves the store as it is
ReadOnlyResultsOf(c, call) == {r \in ResultsOf(c, call) : r.store = store /\ r.flushed = store}

\* C4 (convergence): two clients that synchronize against the same store,
\* neither synchronize writing to it, end with the same index, whatever
\* their states were before.
Convergence ==
    \A call \in SyncCalls :
        \A r1 \in ReadOnlyResultsOf("A", call) : \A r2 \in ReadOnlyResultsOf("B", call) :
            r1.tree = r2.tree

RetentionBound ==
    \A c \in Clients : \A call \in SyncCalls : \A r \in ResultsOf(c, call) :
        call.cleanup =>
            \A file_path \in DOMAIN r.tree :
                Cardinality(r.tree[file_path].versions)
                    <= Get(r.tree[file_path].meta, "versions", DefaultVersions)

\* C7 (retention of history): after a synchronize with cleanup, for every
\* path whose metadata has versions = k >= 1, the k highest of the messages
\* stored for the path (all of them when there are fewer) are still in the
\* store and are the version set of the path.
RetentionOfHistory ==
    \A c \in Clients : \A call \in SyncCalls : \A r \in ResultsOf(c, call) :
        call.cleanup =>
            \A file_path \in DOMAIN r.tree :
                LET k == Get(r.tree[file_path].meta, "versions", DefaultVersions)
                    top == LastWanted(PathSeqs(r.flushed, r.existing, file_path), k)
                IN k >= 1 =>
                      /\ top \subseteq DOMAIN r.store
                      /\ r.tree[file_path].versions = top

\* C8 (index entry invariant): every index entry has a version set that is
\* not empty and whose maximum is the latest_seq of the entry.
IndexEntryInvariant ==
    \A c \in Clients : \A file_path \in DOMAIN tree[c] :
        /\ tree[c][file_path].versions # {}
        /\ Max(tree[c][file_path].versions) = tree[c][file_path].seq

\* C9: after every synchronize the version set of every index entry is a
\* subset of the sequences the enumeration listed.
VersionsInStore ==
    \A c \in Clients : \A call \in SyncCalls : \A r \in ResultsOf(c, call) :
        \A file_path \in DOMAIN r.tree :
            r.tree[file_path].versions \subseteq r.existing

\* C10: after every synchronize _seen is a subset of the sequences in the
\* store: those the enumeration listed, less those the synchronize expunged.
SeenInStore ==
    \A c \in Clients : \A call \in SyncCalls : \A r \in ResultsOf(c, call) :
        /\ r.seen \subseteq r.existing \ r.expunged
        /\ r.seen \subseteq DOMAIN r.store

\* A client saw a message that a peer expunged afterwards: its index still
\* names the version, and its synchronize drops the sequence from _seen.
SeenInStoreWitness ==
    \E c \in Clients : \E s \in seen[c] \ DOMAIN store :
        /\ unwritten[c] = EmptyDict
        /\ \A call \in SyncCalls : \A r \in ResultsOf(c, call) : s \notin r.seen

\* The plain calls of synchronize, with and without cleanup
PlainCalls == {call \in SyncCalls : call.snapshot = "None" /\ ~call.ignore_snapshot}

\* The sequences of the enumeration above everything client c has seen:
\* those a synchronize of c has to examine
Unseen(c, existing) == {s \in existing : \A x \in seen[c] \cap existing : s > x}

HeaderDamaged(folder, seqs) == {s \in seqs : HeaderError(folder[s]) # "none"}
BodyDamaged(folder, seqs) == {s \in seqs : BodyError(folder[s]) # "none"}

\* C11: a message whose header cannot be fetched or decoded never aborts
\* synchronize: the sequence is marked broken, is not added to _seen and
\* gets no index entry, and every other unseen sequence is examined in the
\* same synchronize.  (Stated for folders without damaged snapshots.)
BrokenMessagesSkipped ==
    \A c \in Clients : \A call \in PlainCalls : \A r \in ResultsOf(c, call) :
        LET todo == Unseen(c, r.existing)
            bad == HeaderDamaged(r.flushed, todo)
        IN BodyDamaged(r.flushed, r.existing) = {} =>
              /\ ~r.raised
              /\ bad \subseteq r.broken
              /\ r.seen \cap bad = {}
              /\ \A file_path \in DOMAIN r.tree : r.tree[file_path].versions \cap bad = {}
              /\ (todo \ bad) \ r.expunged \subseteq r.seen

\* C12: a snapshot whose body cannot be fetched, decrypted, decompressed or
\* parsed is not fatal: synchronize returns normally, the sequences below
\* the snapshot are examined, and the index and _seen hold the ordinary
\* messages.  (Stated for folders whose headers are all readable.)
CorruptSnapshotIgnored ==
    \A c \in Clients : \A call \in PlainCalls : \A r \in ResultsOf(c, call) :
        LET todo == Unseen(c, r.existing)
        IN (HeaderDamaged(r.flushed, r.existing) = {} /\ BodyDamaged(r.flushed, todo) # {}) =>
              /\ ~r.raised
              /\ todo \ r.expunged \subseteq r.seen
              /\ \A s \in todo :
                    r.flushed[s].meta.fn \in UserPaths =>
                       /\ r.flushed[s].meta.fn \in DOMAIN r.tree
                       /\ r.tree[r.flushed[s].meta.fn].seq >= s

\* C14: flush tries every pending file, also after a refusal; a refused file
\* stays in the buffer as it was, an accepted one leaves it and is in the
\* store, and flush returns False exactly when some append was refused.
FlushReportsRejections ==
    \A c \in Clients :
        \A order \in Orders(DOMAIN unwritten[c]) :
            \A oc \in [DOMAIN unwritten[c] -> {"OK", "NO"}] :
                LET un == unwritten[c]
                    r == FlushAll(FlushState(store, nextSeq, un), order, oc)
                    new == DOMAIN r.store \ DOMAIN store
                IN /\ \A fp \in DOMAIN un :
                         IF oc[fp] = "OK"
                         THEN /\ fp \notin DOMAIN r.un
                              /\ \E s \in new : r.store[s] = EncodeObject(fp, un[fp])
                         ELSE /\ fp \in DOMAIN r.un
                              /\ r.un[fp] = un[fp]
                   /\ Cardinality(new) = Cardinality({fp \in DOMAIN un : oc[fp] = "OK"})
                   /\ r.happy <=> (\A fp \in DOMAIN un : oc[fp] = "OK")

\* A buffer with two files and a store with room for both
FlushReportsRejectionsWitness ==
    \E c \in Clients :
        /\ DOMAIN unwritten[c] = RetryPaths
        /\ nextSeq + 1 <= MaxSeq

\* C15 (at-least-once writes): a pending file leaves the buffer only by an
\* append the store accepted, and, flushes that the store accepts staying
\* possible, every buffer with a pending file becomes empty.
AtLeastOnce ==
    /\ [][\A c \in Clients : \A fp \in DOMAIN unwritten[c] :
             (fp \notin DOMAIN unwritten'[c] \/ unwritten'[c][fp] # unwritten[c][fp]) =>
                \E s \in DOMAIN store' \ DOMAIN store :
                    store'[s] = EncodeObject(fp, unwritten[c][fp])]_vars
    /\ \A c \in Clients : (unwritten[c] # EmptyDict) ~> (unwritten[c] = EmptyDict)

\* Client A, which does not buffer, holds a file: its append was refused.
AtLeastOnceWitness ==
    /\ "p" \in DOMAIN unwritten["A"]
    /\ ~buffering["A"]
    /\ "p" \notin {store[s].meta.fn : s \in DOMAIN store}

\* ------------------------------------------------------------------ sessions
\* The configuration object of the shared Mailfile
Config == ConfigOf(cfg[Shared], buffering[Shared])

\* What __exit__ can do from the present state, as thread t has started it
ExitsOf(t) ==
    UNION {ExitResults(store, nextSeq, ClientState(Shared), Config, sstack[Shared],
                       {"OK", "NO"}, reachable) : reachable \in BOOLEAN}

EntersOf(t) ==
    UNION {EnterResults(store, nextSeq, ClientState(Shared), Config, sstack[Shared],
                        {"OK", "NO"}, reachable) : reachable \in BOOLEAN}

\* The paths whose staged write the flush of synchronize appended
Appended(sync) == {fp \in DOMAIN unwritten[Shared] : fp \notin DOMAIN sync.un}

\* C13: when a session that began with an empty write buffer exits, the
\* flush of the writes it staged is all or nothing: every staged write was
\* appended to the store, or none was, also when the store rejects some of
\* the appends.
FlushAtomicAtExit ==
    \A t \in Threads :
        pc[t] = "__exit__" /\ blocks[t][Len(blocks[t])].staged = {} =>
            \A e \in ExitsOf(t) :
                Appended(e.sync) \in {{}, DOMAIN unwritten[Shared]}

\* C16: when a session exit completes, the configuration is the one of just
\* before the matching enter, for every nesting depth; and a session that
\* was entered has buffering on.
ConfigRestored ==
    \A t \in Threads :
        /\ pc[t] = "__exit__" =>
              \A e \in ExitsOf(t) :
                  e.completed => e.config = blocks[t][Len(blocks[t])].config
        /\ pc[t] = "__enter__" =>
              \A e \in EntersOf(t) : e.completed => e.config.buffering

\* The number of times thread t holds the session lock
HoldCount(t) == IF lock[Shared].owner = t THEN lock[Shared].count ELSE 0

RECURSIVE OpenBlocks(_)
OpenBlocks(ts) ==
    IF ts = {} THEN 0
    ELSE LET t == CHOOSE x \in ts : TRUE
         IN Len(blocks[t]) + OpenBlocks(ts \ {t})

\* C17: after every session entry and exit, normal or not, the hold count of
\* the thread on the session lock and the depth of the config stack are back
\* to what the `with` blocks still open account for: a thread outside every
\* method holds the lock once per open block, and the stack has one saved
\* configuration per open block.
GuaranteedRelease ==
    /\ \A t \in Threads : pc[t] = "idle" => HoldCount(t) = Len(blocks[t])
    /\ (\A t \in Threads : pc[t] = "idle") => Len(sstack[Shared]) = OpenBlocks(Threads)

\* C18: at most one thread is inside a method that changes the index, the
\* seen set, the write buffer or the config stack, and that thread holds the
\* lock; a thread that holds the lock may take it again.
MutualExclusion ==
    /\ Cardinality({t \in Threads : pc[t] # "idle"}) <= 1
    /\ \A t \in Threads : pc[t] # "idle" => lock[Shared].owner = t
    /\ \A t \in Threads : blocks[t] # <<>> => lock[Shared].owner = t

\* a thread inside synchronize that it entered from within its own session,
\* while the other thread has work staged by an earlier method
MutualExclusionWitness ==
    \E t \in Threads :
        /\ pc[t] = "synchronize"
        /\ blocks[t] # <<>>
        /\ lock[Shared].count = Len(blocks[t]) + 1
        /\ unwritten[Shared] # EmptyDict

\* ----------------------------------------------------------- FilesystemIMAP
\* C19: every append of FilesystemIMAP is assigned a sequence strictly
\* greater than every sequence assigned before in the folder, also after
\* messages, the highest one included, were deleted.
AppendStrictlyMonotonic ==
    \A i, j \in 1..Len(assigned) : i < j => assigned[i].seq < assigned[j].seq

\* The i-th and the j-th completed append overlapped: the later one listed
\* the directory before the earlier one wrote its file
Concurrent(i, j) == i < j /\ assigned[j].began < i

Stored(a) == a.seq \in DOMAIN files /\ files[a.seq] = a.message

\* C20: two appends issued concurrently to the same folder by independent
\* processes get distinct sequences, and both messages are stored in full.
ConcurrentAppendsKept ==
    \A i, j \in 1..Len(assigned) :
        Concurrent(i, j) =>
            /\ assigned[i].seq # assigned[j].seq
            /\ Stored(assigned[i])
            /\ Stored(assigned[j])

\* ------------------------------------------------------------- _clean_path
\* Paths are sequences of characters here, so that the slashes can be seen.
\* The longest path examined
MaxLen == 5
PathChars == {"/", "a"}
PathStrings == UNION {[1..n -> PathChars] : n \in 0..MaxLen}

\* while path[:1] == '/': path = path[1:]  (lines 63-64)
RECURSIVE StripLeading(_)
StripLeading(path) ==
    IF path # <<>> /\ Head(path) = "/" THEN StripLeading(Tail(path)) ELSE path

\* while path[-1:] == '/': path = path[:-1]  (lines 65-66)
RECURSIVE StripTrailing(_)
StripTrailing(path) ==
    IF path # <<>> /\ path[Len(path)] = "/"
    THEN StripTrailing(SubSeq(path, 1, Len(path) - 1))
    ELSE path

\* path.replace('//', '/') (line 67): one pass from the left over the
\* occurrences that do not overlap; the text produced is not examined again
RECURSIVE Replace(_)
Replace(path) ==
    IF Len(path) < 2
    THEN path
    ELSE IF path[1] = "/" /\ path[2] = "/"
    THEN <<"/">> \o Replace(SubSeq(path, 3, Len(path)))
    ELSE <<path[1]>> \o Replace(Tail(path))

\* _clean_path (lines 62-67)
CleanPath(path) == Replace(StripTrailing(StripLeading(path)))

APath(path) == [kind |-> "path", path |-> path]

\* A caller names a path
InitPaths ==
    /\ Constructed(MaxSeq)
    /\ input \in {APath(path) : path \in PathStrings}
    /\ output = Nothing

\* The path is cleaned, as every operation that takes a path does first
\* (lines 517, 535, 557, 598)
Clean ==
    /\ input.kind = "path"
    /\ output = Nothing
    /\ output' = APath(CleanPath(input.path))
    /\ UNCHANGED <<mfvars, sessvars, fsvars, capacity, unwritten_bytes, input>>

NextPaths == Clean

SpecPaths == InitPaths /\ [][NextPaths]_vars

DoubleSlash(path) == \E i \in 1..(Len(path) - 1) : path[i] = "/" /\ path[i + 1] = "/"

\* C30: a cleaned path has no leading slash, no trailing slash and no two
\* consecutive slashes, and cleaning it again leaves it as it is.
PathNormalised ==
    output.kind = "path" =>
        /\ output.path = <<>> \/ Head(output.path) # "/"
        /\ output.path = <<>> \/ output.path[Len(output.path)] # "/"
        /\ ~DoubleSlash(output.path)
        /\ CleanPath(output.path) = output.path

\* ------------------------------------------------------------------- codec
\* encode_object and _parse_message in full: file data is a sequence of
\* characters, and a message keeps the fields that are read back, the
\* X-Mailfile header and the application/x-mailfile part, with the Subject.
\* The longest file data drawn character by character
MaxPayload == 2
MetadataBlock == 148
PayloadBlock == 2048
DataChars == {"x", " "}

Spaces(n) == [i \in 1..n |-> " "]

\* ('_' * 200)[:n] for n up to 200 (lines 398-399)
Underscores(n) == [i \in 1..n |-> "_"]

RECURSIVE Digits(_)
Digits(n) == IF n < 10 THEN 1 ELSE 1 + Digits(n \div 10)

\* The length of json.dumps of one value of the metadata: a number for
\* `bytes`, `versions` and `ts`, true or false for `deleted`, else a string
\* in its quotes
JsonValueLen(k, v) ==
    CASE k \in {"bytes", "versions", "ts"} -> Digits(v)
      [] k = "deleted" -> (IF v THEN 4 ELSE 5)
      [] OTHER -> Len(v) + 2

RECURSIVE JsonItemsLen(_, _)
JsonItemsLen(mdata, keys) ==
    IF keys = {}
    THEN 0
    ELSE LET k == CHOOSE x \in keys : TRUE
         IN Len(k) + 4 + JsonValueLen(k, mdata[k]) + JsonItemsLen(mdata, keys \ {k})

\* len(json.dumps(mdata, indent=1).strip()) (line 389): a brace and a new
\* line with its indent, the items `"key": value` joined by a comma, a space
\* and a new line with its indent, then a new line and a brace
JsonLen(mdata) ==
    3 + JsonItemsLen(mdata, DOMAIN mdata) + 4 * (Cardinality(DOMAIN mdata) - 1) + 2

\* json.dumps and json.loads of a dictionary of values JSON can carry
JsonDumps(mdata) == [json |-> mdata]
JsonLoads(text) == text.json

\* _maybe_encrypt (lines 340-345): a Fernet token behind a '!', or base64.
\* A token can be opened with the Fernet object that made it, only.
MaybeEncrypt(config, data) ==
    IF config.encrypt
    THEN [bang |-> TRUE, fernet |-> config.fernet, data |-> data]
    ELSE [bang |-> FALSE, fernet |-> "None", data |-> data]

\* The two decoders of _parse_message (lines 475-478, 490-493): what they
\* raise, and what they return
DecodeError(config, field) ==
    IF ~field.bang THEN "none"
    ELSE IF config.fernet = "None" THEN "AttributeError"
    ELSE IF config.fernet # field.fernet THEN "InvalidToken"
    ELSE "none"

Decoded(field) == field.data

\* encode_object (lines 385-420)
EncodeMessage(config, file_path, file_data, metadata) ==
    LET mdata == Update(metadata, [fn |-> file_path, bytes |-> Len(file_data)])
        padding == Underscores(MetadataBlock - (JsonLen(mdata) % MetadataBlock))
        padded == file_data \o Spaces(PayloadBlock - (Len(file_data) % PayloadBlock))
    IN IF config.encrypt
       THEN [subject |-> config.subject,
             xmailfile |-> MaybeEncrypt(config, JsonDumps(Put(mdata, "_", padding))),
             part |-> MaybeEncrypt(config, padded)]
       ELSE [subject |-> config.subject \o ": " \o file_path,
             xmailfile |-> MaybeEncrypt(config, JsonDumps(mdata)),
             part |-> MaybeEncrypt(config, file_data)]

\* contents[:n] that keeps the padding
TrimNothing(contents, n) == contents

\* contents[:n] (line 494)
Trim(contents, n) == SubSeq(contents, 1, IF n < Len(contents) THEN n ELSE Len(contents))

Failed(error) == [raised |-> error, metadata |-> EmptyDict, contents |-> <<>>]

\* _parse_message (lines 466-499); file_path is "None" when the caller
\* demands no path
ParseMessage(config, file_path, message, headersonly, clean) ==
    IF DecodeError(config, message.xmailfile) # "none"
    THEN Failed(DecodeError(config, message.xmailfile))
    ELSE LET loaded == JsonLoads(Decoded(message.xmailfile))
             metadata == IF clean THEN CleanMetadata(loaded) ELSE loaded
         IN IF file_path # "None" /\ loaded.fn # file_path
            THEN Failed("IOError")
            ELSE IF headersonly
            THEN [raised |-> "none", metadata |-> metadata, contents |-> <<>>]
            ELSE IF "part" \notin DOMAIN message
            THEN Failed("OSError")
            ELSE IF DecodeError(config, message.part) # "none"
            THEN Failed(DecodeError(config, message.part))
            ELSE [raised |-> "none", metadata |-> metadata,
                  contents |-> Trim(Decoded(message.part), metadata.bytes)]

\* The objects handed to encode_object: clear and encrypted mode, data
\* with and without spaces at its end, empty data, data that fills a block,
\* metadata with and without the keys encode_object sets itself
CodecConfigs == {ConfigOf(DefaultConfig, FALSE), SetKey(ConfigOf(DefaultConfig, FALSE), "k")}
CodecPaths == {"p", "d/q"}
CodecPayloads ==
    UNION {[1..n -> DataChars] : n \in 0..MaxPayload} \cup {[i \in 1..PayloadBlock |-> "x"]}
CodecMetadata ==
    {EmptyDict, [versions |-> 2], [versions |-> 2, deleted |-> TRUE], ("_" :> "__"),
     [fn |-> "other"], [bytes |-> 7], [fn |-> "other", bytes |-> 7, ts |-> 12] @@ ("_" :> "")}

InitCodec ==
    /\ Constructed(MaxSeq)
    /\ input \in {[kind |-> "object", config |-> config, file_path |-> fp, file_data |-> data, metadata |-> m] :
                    config \in CodecConfigs, fp \in CodecPaths, data \in CodecPayloads, m \in CodecMetadata}
    /\ output = Nothing

\* message = encode_object(file_path, file_data, metadata)
Encode ==
    /\ input.kind = "object"
    /\ output = Nothing
    /\ output' = [kind |-> "message",
                  message |-> EncodeMessage(input.config, input.file_path, input.file_data, input.metadata)]
    /\ UNCHANGED <<mfvars, sessvars, fsvars, capacity, unwritten_bytes, input>>

\* _parse_message(file_path, message) under the configuration that encoded it
Decode ==
    /\ output.kind = "message"
    /\ output' = [kind |-> "decoded"] @@ ParseMessage(input.config, input.file_path, output.message, FALSE, TRUE)
    /\ UNCHANGED <<mfvars, sessvars, fsvars, capacity, unwritten_bytes, input>>

NextCodec == Encode \/ Decode

SpecCodec == InitCodec /\ [][NextCodec]_vars

\* The metadata handed to encode_object without the keys it sets itself
Given(metadata) == Del(Del(Del(metadata, "fn"), "bytes"), "_")

\* C29 as stated: decoding returns the data, of the length that the
\* metadata gives as bytes, and exactly the metadata handed in without the
\* keys fn, bytes and _.
PaddingTransparencyStrict ==
    output.kind = "decoded" =>
        /\ output.raised = "none"
        /\ output.contents = input.file_data
        /\ output.metadata = Given(input.metadata)

\* C29, amended: in clear mode and in encrypted mode, decoding an object
\* under the configuration that encoded it returns the data handed in, all
\* padding trimmed, and the metadata handed in without the keys fn and _ and
\* with bytes set to the length of the data.
PaddingTransparency ==
    output.kind = "decoded" =>
        /\ output.raised = "none"
        /\ output.contents = input.file_data
        /\ "bytes" \in DOMAIN output.metadata
        /\ output.metadata.bytes = Len(input.file_data)
        /\ Del(output.metadata, "bytes") = Given(input.metadata)

\* An encrypted object whose data ends in a space and whose metadata named
\* fn, bytes and _ itself was padded, and decoded
PaddingTransparencyWitness ==
    /\ output.kind = "decoded"
    /\ input.config.encrypt
    /\ input.file_data = <<"x", " ">>
    /\ {"fn", "bytes", "_"} \subseteq DOMAIN input.metadata
    /\ output.raised = "none"

\* ------------------------------------------------------- index after flush
\* The paths of client c that a step took out of the write buffer by
\* appending them to the store
Flushed(c) ==
    {fp \in DOMAIN unwritten[c] \ DOMAIN unwritten'[c] :
        \E seq \in DOMAIN store' \ DOMAIN store : store'[seq].meta.fn = fp}

\* C25: when a flush has appended the buffered write of a path that is not
\* in the Index, the Index has an entry for that path as the flush returns,
\* without a further synchronize.
IndexedWhenFlushed ==
    [][\A c \in Clients : \A fp \in Flushed(c) \ DOMAIN tree[c] : fp \in DOMAIN tree'[c]]_vars

\* ------------------------------------------------------ fetches of a scan
\* The snapshots in the store, and the messages appended after the latest
SnapshotsIn(folder) == {s \in DOMAIN folder : folder[s].meta.fn = SnapPath}
Further(folder) == {s \in DOMAIN folder : s > Max(SnapshotsIn(folder))}

\* A client with an empty Index, an empty Seen and nothing to write
Cold(c) == tree[c] = EmptyDict /\ seen[c] = {} /\ unwritten[c] = EmptyDict

\* C22: once a snapshot is in the store and d further messages were
\* appended, a synchronize of a cold client sends at most d + 1 FETCH
\* commands, header peeks and full fetches counted alike.
SnapshotAcceleration ==
    \A c \in Clients :
        Cold(c) /\ SnapshotsIn(store) # {} =>
            \A r \in ResultsOf(c, [cleanup |-> FALSE, snapshot |-> "None", ignore_snapshot |-> FALSE]) :
                r.fetches <= Cardinality(Further(store)) + 1

\* ------------------------------------------------------ files with contents
\* From here on files carry their contents (`data`, a sequence of
\* characters), and a stored message is what encode_object made of the file
\* under the configuration of the moment.  Mailfile_File.close also stamps
\* the metadata with the time (`ts`, line 126), which the model leaves out.
Contents == UNION {[1..n -> DataChars] : n \in 0..MaxPayload}
DataPaths == {"p", "q"}

\* version=None of open and _get_file
NoVersion == 0

ConfigFor(c) == ConfigOf(cfg[c], buffering[c])

\* The message as encode_object writes it under a configuration: the
\* X-Mailfile header and the part are added; the text of a snapshot stays in
\* `snap`, and its part is left empty
Sealed(config, msg) ==
    [f \in DOMAIN msg \ {"data"} |-> msg[f]]
        @@ EncodeMessage(config, msg.meta.fn, Get(msg, "data", <<>>), msg.meta)

\* The folder after an operation that ran under one configuration: the
\* messages it appended are encoded under it
SealNew(config, before, after) ==
    [s \in DOMAIN after |-> IF s \in DOMAIN before THEN before[s] ELSE Sealed(config, after[s])]

\* The folder as the scan of a client meets it: a header the client's
\* configuration cannot open is a defect of the message (lines 475-476)
Viewed(config, msg) ==
    IF "xmailfile" \notin DOMAIN msg THEN msg
    ELSE IF DecodeError(config, msg.xmailfile) = "InvalidToken" THEN [defect |-> "token"] @@ msg
    ELSE IF DecodeError(config, msg.xmailfile) = "AttributeError" THEN [defect |-> "fernet"] @@ msg
    ELSE msg

View(config, folder) == [s \in DOMAIN folder |-> Viewed(config, folder[s])]

\* A variant of _get_file that fetches the latest version whatever is asked
GetFileLatest(config, folder, t, file_path, version) ==
    IF file_path \notin DOMAIN t
    THEN Failed("KeyError")
    ELSE IF t[file_path].seq \notin DOMAIN folder
    THEN Failed("OSError")
    ELSE ParseMessage(config, file_path, folder[t[file_path].seq], FALSE, TRUE)

\* _get_file (lines 501-514)
GetFile(config, folder, t, file_path, version) ==
    IF file_path \notin DOMAIN t
    THEN Failed("KeyError")
    ELSE IF version # NoVersion /\ version \notin t[file_path].versions
    THEN Failed("KeyError")
    ELSE LET seq == IF version # NoVersion THEN version ELSE t[file_path].seq
         IN IF seq \notin DOMAIN folder
            THEN Failed("OSError")
            ELSE ParseMessage(config, file_path, folder[seq], FALSE, TRUE)

\* except (...) of open (line 613)
CaughtInOpen == {"OSError", "IOError", "KeyError", "ValueError"}

\* Mailfile.open (lines 596-620) in mode "r", "w" or "a": what it raises, and
\* the metadata and the contents the handle is made with (line 618: those
\* of the file in modes "r" and "a", none in mode "w")
Open(config, folder, cs, file_path, mode, version) ==
    IF file_path \in DOMAIN cs.un
    THEN [raised |-> "none", metadata |-> cs.un[file_path].meta,
          contents |-> IF mode \in {"r", "a"} THEN cs.un[file_path].data ELSE <<>>]
    ELSE LET g == GetFile(config, folder, cs.tree, file_path, version)
             deleted == g.raised = "none" /\ Get(g.metadata, "deleted", FALSE)
             error == IF deleted THEN "OSError" ELSE g.raised
             metadata == IF deleted /\ mode # "r" THEN Del(g.metadata, "deleted") ELSE g.metadata
         IN IF error = "none"
            THEN [raised |-> "none", metadata |-> metadata,
                  contents |-> IF mode \in {"r", "a"} THEN g.contents ELSE <<>>]
            ELSE IF error \notin CaughtInOpen
            THEN Failed(error)
            ELSE IF mode = "r"
            THEN Failed("OSError")
            ELSE [raised |-> "none", metadata |-> metadata, contents |-> <<>>]

\* A variant of listdir that shows the deleted paths too
ListedAll(t, sn) == {k \in DOMAIN t : t[k].seq \in sn}

\* listdir('') before the names are cut at the first slash (lines 522-524)
Listed(t, sn) ==
    {k \in DOMAIN t : ~Get(t[k].meta, "deleted", FALSE) /\ t[k].seq \in sn}

RECURSIVE SumBytes(_, _)
SumBytes(un, keys) ==
    IF keys = {}
    THEN 0
    ELSE LET k == CHOOSE x \in keys : TRUE
         IN (IF "data" \in DOMAIN un[k] THEN Len(un[k].data) ELSE 0) + SumBytes(un, keys \ {k})

\* What flush takes off _unwritten_bytes (line 448): the lengths of the
\* files it appended.  The length of the text of a snapshot is not carried.
FlushedBytes(staged, un) == SumBytes(staged, DOMAIN staged \ DOMAIN un)

\* _maybe_flush (lines 455-458): whether a staged file stays in the buffer
StaysBuffered(config, bytes) == config.buffering /\ ~(config.buffering_max_bytes < bytes)

\* The state of client c after an operation that left the folder, the
\* index, _seen and the buffer as given; `staged` is the buffer before the
\* operation flushed, `added` what _set_file added to _unwritten_bytes
Settle(c, folder, next, t, sn, staged, added, un) ==
    /\ store' = SealNew(ConfigFor(c), store, folder)
    /\ nextSeq' = next
    /\ tree' = [tree EXCEPT ![c] = t]
    /\ seen' = [seen EXCEPT ![c] = sn]
    /\ unwritten' = [unwritten EXCEPT ![c] = un]
    /\ unwritten_bytes' = [unwritten_bytes EXCEPT ![c] = @ + added - FlushedBytes(staged, un)]
    /\ UNCHANGED <<log, lock, pc, blocks, fsvars, capacity>>

\* open(file_path, 'w'), write(data), an optional change of handle.metadata,
\* close (lines 124-130, 460-464); nothing happens when open raises
WriteClose(c, file_path, data, edit, answers) ==
    LET o == Open(ConfigFor(c), store, ClientState(c), file_path, "w", NoVersion)
        file == [meta |-> Update(o.metadata, edit), snap |-> NoSnap, data |-> data]
        staged == Put(unwritten[c], file_path, file)
        buffered == StaysBuffered(ConfigFor(c), unwritten_bytes[c] + Len(data))
    IN /\ o.raised = "none"
       /\ \E f \in SetFile(store, nextSeq, unwritten[c], file_path, file, buffered, answers) :
             Settle(c, f.store, f.next, tree[c], seen[c], staged, Len(data), f.un)
       /\ UNCHANGED <<buffering, cfg, sstack>>

\* Mailfile.flush
FlushFiles(c, answers) ==
    /\ unwritten[c] # EmptyDict
    /\ \E f \in FlushResults(store, nextSeq, unwritten[c], answers) :
          Settle(c, f.store, f.next, tree[c], seen[c], unwritten[c], 0, f.un)
    /\ UNCHANGED <<buffering, cfg, sstack>>

\* Mailfile.synchronize
Synchronize(c, cleanup, snapshot, answers) ==
    /\ \E r \in SyncResults(View(ConfigFor(c), store), nextSeq, ClientState(c), cleanup,
                            snapshot, FALSE, buffering[c], answers) :
          Settle(c, r.store, r.next, r.tree, r.seen, unwritten[c], 0, r.un)
    /\ UNCHANGED <<buffering, cfg, sstack>>

\* with mailfile: ... (lines 195-214), the store within reach
Enter(c, answers) ==
    \E e \in EnterResults(View(ConfigFor(c), store), nextSeq, ClientState(c), ConfigFor(c),
                          sstack[c], answers, TRUE) :
        /\ Settle(c, e.sync.store, e.sync.next, e.sync.tree, e.sync.seen, unwritten[c], 0, e.sync.un)
        /\ buffering' = [buffering EXCEPT ![c] = e.config.buffering]
        /\ cfg' = [cfg EXCEPT ![c] = RestOf(e.config)]
        /\ sstack' = [sstack EXCEPT ![c] = e.sstack]

Exit(c, answers) ==
    /\ sstack[c] # <<>>
    /\ \E e \in ExitResults(View(ConfigFor(c), store), nextSeq, ClientState(c), ConfigFor(c),
                            sstack[c], answers, TRUE) :
          /\ Settle(c, e.sync.store, e.sync.next, e.sync.tree, e.sync.seen, unwritten[c], 0, e.sync.un)
          /\ buffering' = [buffering EXCEPT ![c] = e.config.buffering]
          /\ cfg' = [cfg EXCEPT ![c] = RestOf(e.config)]
          /\ sstack' = [sstack EXCEPT ![c] = e.sstack]

\* Mailfile.remove(file_path), no versions given
RemoveFile(c, file_path, answers) ==
    /\ \E r \in RemoveResults(View(ConfigFor(c), store), nextSeq, ClientState(c), file_path, {},
                              buffering[c], answers, "OK") :
          Settle(c, r.store, r.next, r.tree, r.seen, Del(unwritten[c], file_path), 0, r.un)
    /\ UNCHANGED <<buffering, cfg, sstack>>

\* Mailfile.set_encryption_key
SetClientKey(c, key) ==
    /\ cfg' = [cfg EXCEPT ![c] = RestOf(SetKey(ConfigFor(c), key))]
    /\ UNCHANGED <<mfvars, sstack, lock, pc, blocks, fsvars, capacity, unwritten_bytes>>

\* open(file_path, 'r', version), the handle read to its end
Read(c, file_path, version) ==
    /\ output' = [kind |-> "read", client |-> c, file_path |-> file_path, version |-> version]
                    @@ Open(ConfigFor(c), store, ClientState(c), file_path, "r", version)
    /\ UNCHANGED <<mfvars, sessvars, fsvars, capacity, unwritten_bytes, input>>

\* ------------------------------------------------------ write-read round trip
\* One client, an empty folder and a store that accepts every append: the
\* client may set a key, then opens one `with` block, writes paths it has not
\* written yet, leaves the block and reads.  input keeps what was written.
Writer == "A"

Session(phase, written) == [kind |-> "session", phase |-> phase, written |-> written]

InitRoundTrip ==
    /\ Constructed(MaxSeq)
    /\ input = Session("before", EmptyDict)
    /\ output = Nothing

ChooseKey ==
    /\ input.kind = "session" /\ input.phase = "before"
    /\ ~cfg[Writer].encrypt
    /\ SetClientKey(Writer, "k")
    /\ UNCHANGED <<input, output>>

SessionEnter ==
    /\ input.kind = "session" /\ input.phase = "before"
    /\ Enter(Writer, {"OK"})
    /\ input' = Session("inside", input.written)
    /\ UNCHANGED output

SessionWrite(file_path, data) ==
    /\ input.kind = "session" /\ input.phase = "inside"
    /\ file_path \notin DOMAIN input.written
    /\ WriteClose(Writer, file_path, data, EmptyDict, {"OK"})
    /\ input' = Session("inside", Put(input.written, file_path, data))
    /\ UNCHANGED output

SessionExit ==
    /\ input.kind = "session" /\ input.phase = "inside"
    /\ Exit(Writer, {"OK"})
    /\ input' = Session("after", input.written)
    /\ UNCHANGED output

ReadBack(file_path) ==
    /\ input.kind = "session" /\ input.phase = "after"
    /\ Read(Writer, file_path, NoVersion)

NextRoundTrip ==
    \/ ChooseKey
    \/ SessionEnter
    \/ \E fp \in DataPaths, data \in Contents : SessionWrite(fp, data)
    \/ SessionExit
    \/ \E fp \in DataPaths : ReadBack(fp)

SpecRoundTrip == InitRoundTrip /\ [][NextRoundTrip]_vars

\* C23: from an empty folder, a session that writes and closes k distinct
\* paths once each, no append rejected, leaves exactly k messages in the
\* folder after it exits, and opening each of the paths for read returns
\* exactly what was written to it.
RoundTrip ==
    input.kind = "session" /\ input.phase = "after" =>
        /\ Cardinality(DOMAIN store) = Cardinality(DOMAIN input.written)
        /\ \A fp \in DOMAIN input.written :
              LET o == Open(ConfigFor(Writer), store, ClientState(Writer), fp, "r", NoVersion)
              IN o.raised = "none" /\ o.contents = input.written[fp]
        /\ output.kind = "read" /\ output.file_path \in DOMAIN input.written =>
              output.raised = "none" /\ output.contents = input.written[output.file_path]

\* Two paths were written under a key in the session, and one was read back
RoundTripWitness ==
    /\ input.kind = "session" /\ input.phase = "after"
    /\ DOMAIN input.written = DataPaths
    /\ cfg[Writer].encrypt
    /\ output.kind = "read" /\ output.raised = "none" /\ output.contents = <<"x", " ">>

\* ------------------------------------------------ reads inside a session
\* One client lowers config.buffering_max_bytes or leaves it, opens a `with`
\* block, and writes and reads inside it.  input keeps the last contents
\* written to each path.
\* The most that _unwritten_bytes counts up to
MaxBuffered == 4

SetMaxBytes(c, n) ==
    /\ cfg' = [cfg EXCEPT ![c].buffering_max_bytes = n]
    /\ UNCHANGED <<mfvars, sstack, lock, pc, blocks, fsvars, capacity, unwritten_bytes>>

LowerThreshold(n) ==
    /\ input.kind = "session" /\ input.phase = "before"
    /\ cfg[Writer].buffering_max_bytes = DefaultConfig.buffering_max_bytes
    /\ SetMaxBytes(Writer, n)
    /\ UNCHANGED <<input, output>>

WriteInside(file_path, data) ==
    /\ input.kind = "session" /\ input.phase = "inside"
    /\ nextSeq + Cardinality(DOMAIN unwritten[Writer]) <= MaxSeq
    /\ unwritten_bytes[Writer] + Len(data) <= MaxBuffered
    /\ WriteClose(Writer, file_path, data, EmptyDict, {"OK"})
    /\ input' = Session("inside", Put(input.written, file_path, data))
    /\ output' = Nothing

ReadInside(file_path) ==
    /\ input.kind = "session" /\ input.phase = "inside"
    /\ Read(Writer, file_path, NoVersion)

NextSessionReads ==
    \/ \E n \in 0..MaxPayload : LowerThreshold(n)
    \/ SessionEnter
    \/ \E fp \in DataPaths, data \in Contents : WriteInside(fp, data)
    \/ \E fp \in DataPaths : ReadInside(fp)

SpecSessionReads == InitRoundTrip /\ [][NextSessionReads]_vars

\* C24: after a handle opened for writing was closed inside a session, every
\* later open of the path for read in the session returns what was written,
\* whether the write is still in the buffer or was flushed because the
\* buffered bytes exceeded buffering_max_bytes.
ReadYourWrites ==
    input.kind = "session" /\ input.phase = "inside" =>
        /\ \A fp \in DOMAIN input.written :
              LET o == Open(ConfigFor(Writer), store, ClientState(Writer), fp, "r", NoVersion)
              IN o.raised = "none" /\ o.contents = input.written[fp]
        /\ output.kind = "read" /\ output.file_path \in DOMAIN input.written =>
              output.raised = "none" /\ output.contents = input.written[output.file_path]

\* ------------------------------------------------------------ versioned read
\* One client writes path "p" again and again, buffering off, with
\* metadata.versions = k set at the first write, and synchronizes after each
\* write before it writes again.  input keeps the contents of every write
\* under the sequence its message was given.
Versioned == "p"
KeptVersions == {1, 2, 3}

History(k, phase, writes) == [kind |-> "versions", k |-> k, phase |-> phase, writes |-> writes]

InitVersions ==
    /\ Constructed(MaxSeq)
    /\ input \in {History(k, "new", EmptyDict) : k \in KeptVersions}
    /\ output = Nothing

WriteVersion(data) ==
    /\ input.kind = "versions" /\ input.phase \in {"new", "committed", "clean"}
    /\ nextSeq <= MaxSeq
    /\ WriteClose(Writer, Versioned, data,
                  IF input.phase = "new" THEN [versions |-> input.k] ELSE EmptyDict, {"OK"})
    /\ input' = History(input.k, "written", Put(input.writes, nextSeq, data))
    /\ output' = Nothing

Commit ==
    /\ input.kind = "versions" /\ input.phase = "written"
    /\ Synchronize(Writer, FALSE, "None", {"OK"})
    /\ input' = History(input.k, "committed", input.writes)
    /\ UNCHANGED output

Cleanup ==
    /\ input.kind = "versions" /\ input.phase \in {"written", "committed"}
    /\ Synchronize(Writer, TRUE, "None", {"OK"})
    /\ input' = History(input.k, "clean", input.writes)
    /\ UNCHANGED output

ReadVersion(version) ==
    /\ input.kind = "versions" /\ input.phase = "clean"
    /\ Read(Writer, Versioned, version)

NextVersions ==
    \/ \E data \in Contents : WriteVersion(data)
    \/ Commit
    \/ Cleanup
    \/ \E version \in 1..MaxSeq : ReadVersion(version)

SpecVersions == InitVersions /\ [][NextVersions]_vars

Least(a, b) == IF a < b THEN a ELSE b

\* C26: for a path with versions = k whose writes were each committed by
\* the same client, after a synchronize with cleanup the version set has
\* exactly min(k, number of writes) members, the latest sequence is that of
\* the last write, and open(path, 'r', version=v) returns for every v of
\* the version set the contents of the write that was given sequence v.
VersionedRead ==
    input.kind = "versions" /\ input.phase = "clean" =>
        /\ Versioned \in DOMAIN tree[Writer]
        /\ Cardinality(tree[Writer][Versioned].versions)
              = Least(input.k, Cardinality(DOMAIN input.writes))
        /\ tree[Writer][Versioned].seq = Max(DOMAIN input.writes)
        /\ \A v \in tree[Writer][Versioned].versions :
              LET o == Open(ConfigFor(Writer), store, ClientState(Writer), Versioned, "r", v)
              IN v \in DOMAIN input.writes /\ o.raised = "none" /\ o.contents = input.writes[v]
        /\ output.kind = "read" /\ output.version \in tree[Writer][Versioned].versions =>
              output.raised = "none" /\ output.contents = input.writes[output.version]

\* Three writes of a path that keeps two versions, and a read of the older
\* version kept, whose contents differ from the latest
VersionedReadWitness ==
    /\ input.kind = "versions" /\ input.phase = "clean"
    /\ input.k = 2 /\ DOMAIN input.writes = {1, 2, 3}
    /\ output.kind = "read" /\ output.version = 2 /\ output.raised = "none"
    /\ output.contents # input.writes[3]

\* --------------------------------------------------- tombstone and undelete
\* The writer stores path "p" with metadata.versions = 2, synchronizes and
\* removes it; both clients synchronize and read; the writer writes the path
\* again and synchronizes.  The store accepts every append.  input keeps the
\* contents last written and the folder as it was before the remove.
Life(phase, data, folder) == [kind |-> "life", phase |-> phase, data |-> data, folder |-> folder]

InitTombstone ==
    /\ Constructed(MaxSeq + 2)
    /\ input = Life("new", <<>>, EmptyDict)
    /\ output = Nothing

WriteOriginal(data) ==
    /\ input.kind = "life" /\ input.phase = "new"
    /\ WriteClose(Writer, Versioned, data, [versions |-> 2], {"OK"})
    /\ input' = Life("written", data, EmptyDict)
    /\ UNCHANGED output

CommitOriginal ==
    /\ input.kind = "life" /\ input.phase = "written"
    /\ Synchronize(Writer, FALSE, "None", {"OK"})
    /\ input' = Life("committed", input.data, EmptyDict)
    /\ UNCHANGED output

RemoveIt ==
    /\ input.kind = "life" /\ input.phase = "committed"
    /\ RemoveFile(Writer, Versioned, {"OK"})
    /\ input' = Life("removed", input.data, store)
    /\ UNCHANGED output

SyncRemoved(c, cleanup) ==
    /\ input.kind = "life" /\ input.phase = "removed"
    /\ Synchronize(c, cleanup, "None", {"OK"})
    /\ UNCHANGED <<input, output>>

ReadRemoved(c) ==
    /\ input.kind = "life" /\ input.phase = "removed"
    /\ Read(c, Versioned, NoVersion)

Undelete(data) ==
    /\ input.kind = "life" /\ input.phase = "removed"
    /\ WriteClose(Writer, Versioned, data, EmptyDict, {"OK"})
    /\ input' = Life("rewritten", data, input.folder)
    /\ output' = Nothing

Restore(cleanup) ==
    /\ input.kind = "life" /\ input.phase = "rewritten"
    /\ Synchronize(Writer, cleanup, "None", {"OK"})
    /\ input' = Life("restored", input.data, input.folder)
    /\ UNCHANGED output

ReadRestored ==
    /\ input.kind = "life" /\ input.phase = "restored"
    /\ Read(Writer, Versioned, NoVersion)

NextTombstone ==
    \/ \E data \in Contents : WriteOriginal(data)
    \/ CommitOriginal
    \/ RemoveIt
    \/ \E c \in Clients, cleanup \in BOOLEAN : SyncRemoved(c, cleanup)
    \/ \E c \in Clients : ReadRemoved(c)
    \/ \E data \in Contents : Undelete(data)
    \/ \E cleanup \in BOOLEAN : Restore(cleanup)
    \/ ReadRestored

SpecTombstone == InitTombstone /\ [][NextTombstone]_vars

\* The versions of a path in a folder that carry the deleted flag
Tombstones(folder, file_path) ==
    {s \in DOMAIN folder : folder[s].meta.fn = file_path /\ Get(folder[s].meta, "deleted", FALSE)}

\* open(file_path, 'r') of client c in the state reached
Reading(c, file_path) == Open(ConfigFor(c), store, ClientState(c), file_path, "r", NoVersion)'

Keys == {"k", "j"}

ChangeKey(c, key) ==
    /\ cfg[c].key # SetKey(ConfigFor(c), key).key
    /\ SetClientKey(c, key)
    /\ UNCHANGED <<input, output>>

WriteUnderKey(c, data) ==
    /\ nextSeq <= MaxSeq
    /\ WriteClose(c, Versioned, data, EmptyDict, {"OK"})
    /\ UNCHANGED <<input, output>>

SyncUnderKey(c, snapshot) ==
    /\ snapshot = "True" => nextSeq <= MaxSeq /\ Snapshots < MaxSnapshots
    /\ Synchronize(c, FALSE, snapshot, {"OK"})
    /\ UNCHANGED <<input, output>>

NextKeys ==
    \/ WriteUnderKey(Writer, <<"x">>)
    \/ \E c \in Clients :
          \/ \E key \in Keys : ChangeKey(c, key)
          \/ \E snapshot \in {"None", "True"} : SyncUnderKey(c, snapshot)

SpecKeys == Init /\ [][NextKeys]_vars

\* The stored versions of a path, and whether the configuration of client c
\* opens none of them
VersionsOf(folder, file_path) == {s \in DOMAIN folder : folder[s].meta.fn = file_path}

Undecodable(c, file_path) ==
    /\ VersionsOf(store, file_path) # {}
    /\ \A s \in VersionsOf(store, file_path) :
          DecodeError(ConfigFor(c), store[s].xmailfile) # "none"

\* C28: when the key of a client opens no stored version of a path, the
\* synchronize of the client completes normally, its Index has no entry for
\* the path afterwards, and open(path, 'r') fails.
WrongKey ==
    \A c \in Clients :
        Undecodable(c, Versioned) /\ unwritten[c] = EmptyDict =>
            \A r \in SyncResults(View(ConfigFor(c), store), nextSeq, ClientState(c),
                                 FALSE, "None", FALSE, buffering[c], {"OK"}) :
                /\ ~r.raised
                /\ Versioned \notin DOMAIN r.tree
                /\ Open(ConfigFor(c), store, [tree |-> r.tree, seen |-> r.seen, un |-> r.un],
                        Versioned, "r", NoVersion).raised # "none"

\* ------------------------------------------------------ snapshot at exit
\* The writer may set a key, opens a `with` block, writes the paths f1, f2,
\* ... one after the other, SnapshotDistance + 1 of them at most, calls
\* flush() before it writes the next, and leaves the block at some point.
\* The folder has room for all the files and a snapshot.
Files == 1..(SnapshotDistance + 1)
FilePath(i) == "f" \o ToString(i)

InitSnapshot ==
    /\ Constructed(SnapshotDistance + 2)
    /\ input = Session("before", EmptyDict)
    /\ output = Nothing

WriteNext(i) ==
    /\ Cardinality(DOMAIN input.written) = i - 1
    /\ unwritten[Writer] = EmptyDict
    /\ SessionWrite(FilePath(i), <<"x">>)

FlushInside ==
    /\ input.kind = "session" /\ input.phase = "inside"
    /\ FlushFiles(Writer, {"OK"})
    /\ UNCHANGED <<input, output>>

NextSnapshot ==
    \/ ChooseKey
    \/ SessionEnter
    \/ \E i \in Files : WriteNext(i)
    \/ FlushInside
    \/ SessionExit

SpecSnapshot == InitSnapshot /\ [][NextSnapshot]_vars

\* The first synchronize of a fresh client that has the configuration of
\* client c
FreshSync(c) ==
    SyncResults(View(ConfigFor(c), store), nextSeq, [tree |-> EmptyDict, seen |-> {}, un |-> EmptyDict],
                FALSE, "None", FALSE, FALSE, {"OK"})

\* C21: after a session in which more than 20 new files were written has
\* exited, a snapshot is in the store, and the first synchronize of a fresh
\* client indexes all of those files by fetching the snapshot only (its
\* header and its body), no message of a file.
SnapshotShortcut ==
    /\ input.kind = "session" /\ input.phase = "after"
    /\ Cardinality(DOMAIN input.written) > SnapshotDistance
    => /\ SnapshotsIn(store) # {}
       /\ \A r \in FreshSync(Writer) :
             /\ DOMAIN input.written \subseteq DOMAIN r.tree
             /\ r.fetches <= 2

\* ------------------------------------------------------- what a scan examines
\* Two clients over one folder.  Client A writes path "p" (buffering off)
\* and synchronizes, with a snapshot or without; client B synchronizes, with
\* cleanup or without.  A message with a header that is not base64 may
\* arrive.  input keeps,
\* for each client, the sequences whose headers its scans have asked for
\* (examined) and those a refused fetch made it skip (skipped).
Scans(examined, skipped) == [kind |-> "scans", examined |-> examined, skipped |-> skipped]

InitScans ==
    /\ Constructed(MaxSeq)
    /\ input = Scans([c \in Clients |-> {}], [c \in Clients |-> {}])
    /\ output = Nothing

Range(seq) == {seq[i] : i \in DOMAIN seq}

\* synchronize(cleanup, snapshot), what its scan asked for being noted
Examine(c, cleanup, snapshot) ==
    /\ snapshot = "True" => Snapshots <= MaxSnapshots
    /\ \E r \in SyncResults(store, nextSeq, ClientState(c), cleanup, snapshot, FALSE,
                            buffering[c], {"OK"}) :
          /\ store' = r.store
          /\ nextSeq' = r.next
          /\ tree' = [tree EXCEPT ![c] = r.tree]
          /\ seen' = [seen EXCEPT ![c] = r.seen]
          /\ unwritten' = [unwritten EXCEPT ![c] = r.un]
          /\ log' = Update(Update(log, Logged(r.flushed)), Logged(r.store))
          /\ input' = Scans([input.examined EXCEPT ![c] = @ \cup Range(r.peeked)],
                            [input.skipped EXCEPT ![c] = @ \cup r.broken])
    /\ UNCHANGED <<buffering, sessvars, fsvars, capacity, unwritten_bytes, output>>

NotBase64 == [meta |-> [fn |-> "p"], snap |-> NoSnap, defect |-> "base64"]

NextScans ==
    \/ Write("A", "p", EmptyDict, {"OK"})
    \/ \E snapshot \in {"None", "True"} : Examine("A", FALSE, snapshot)
    \/ \E cleanup \in BOOLEAN : Examine("B", cleanup, "None")
    \/ Deliver(NotBase64)

SpecScans == InitScans /\ [][NextScans]_vars

\* The calls of synchronize that SpecScans makes, and what each can return
ScanCalls == [cleanup : BOOLEAN, snapshot : {"None", "True"}]

ScanCallsOf(c) == {call \in ScanCalls : IF c = "A" THEN ~call.cleanup ELSE call.snapshot = "None"}

Examined(c, call) ==
    SyncResults(store, nextSeq, ClientState(c), call.cleanup, call.snapshot, FALSE,
                buffering[c], {"OK"})

\* The enumerated sequences the scan of r did not ask for
Unpeeked(r) == r.existing \ Range(r.peeked)

\* C31: the scan of a synchronize that returns asks for the enumerated
\* sequences in strictly descending order from the highest, none of which was
\* in Seen; the first one it does not ask for is in Seen as the scan left it;
\* nothing below that one is fetched in the synchronize; and every enumerated
\* sequence below it was examined before by a scan of some client.
StopAtSeen ==
    \A c \in Clients : \A call \in ScanCallsOf(c) : \A r \in Examined(c, call) :
        ~r.raised =>
            /\ \A i, j \in DOMAIN r.peeked : i < j => r.peeked[i] > r.peeked[j]
            /\ \A s \in Range(r.peeked) : s \in r.existing /\ s \notin seen[c]
            /\ \A s \in Range(r.peeked) : \A e \in r.existing : e > s => e \in Range(r.peeked)
            /\ Unpeeked(r) # {} =>
                  /\ Max(Unpeeked(r)) \in r.reached
                  /\ \A s \in r.refetched : s >= Max(Unpeeked(r))
                  /\ \A s \in Unpeeked(r) :
                        s < Max(Unpeeked(r)) => \E d \in Clients : s \in input.examined[d]

\* ------------------------------------------------ fetches that fail for a while
\* Client A writes path "p" (buffering off) and synchronizes, with cleanup
\* or without.  The store may refuse the fetch of one message at a
\* time, and fetch it again later.
\* The store starts to refuse the fetches of a message, and stops
FetchFails(seq) ==
    /\ seq \in DOMAIN store
    /\ \A s \in DOMAIN store : Defect(store[s]) # "fetch"
    /\ Defect(store[seq]) = "none"
    /\ store' = [store EXCEPT ![seq] = [defect |-> "fetch"] @@ @]
    /\ UNCHANGED <<nextSeq, tree, seen, unwritten, buffering, log, sessvars, fsvars, auxvars>>

FetchRecovers(seq) ==
    /\ seq \in DOMAIN store
    /\ Defect(store[seq]) = "fetch"
    /\ store' = [store EXCEPT ![seq] = [f \in DOMAIN @ \ {"defect"} |-> @[f]]]
    /\ UNCHANGED <<nextSeq, tree, seen, unwritten, buffering, log, sessvars, fsvars, auxvars>>

NextSkipped ==
    \/ Write("A", "p", EmptyDict, {"OK"})
    \/ \E cleanup \in BOOLEAN : Examine("A", cleanup, "None")
    \/ \E seq \in 1..MaxSeq : FetchFails(seq)
    \/ \E seq \in 1..MaxSeq : FetchRecovers(seq)

SpecSkipped == InitScans /\ [][NextSkipped]_vars

\* Every fetch succeeds
Fetchable == \A s \in DOMAIN store : Defect(store[s]) = "none"

\* C37: a message that a client skipped because its fetch failed, and that
\* is still in the folder, is in Seen and its path in the Index after the
\* next synchronize of that client that finds every fetch to succeed,
\* whatever higher sequences the client has examined since.
SkippedExaminedAgain ==
    \A c \in Clients : \A s \in input.skipped[c] \cap DOMAIN store :
        Fetchable =>
            \A r \in Examined(c, [cleanup |-> FALSE, snapshot |-> "None"]) :
                /\ s \in r.seen
                /\ store[s].meta.fn \in DOMAIN r.tree
                /\ r.tree[store[s].meta.fn].seq >= s

\* ------------------------------------------------------------ snapshot ingest
\* _parse_snapshot by itself: the index of the client has an entry for "p"
\* or none, the snapshot has entries for "p" and "q" or for fewer, and the
\* enumeration is any set of sequences.  An entry has a non-empty version
\* set and its highest member as the latest; the entries of the snapshot
\* carry metadata of their own.
IndexEntries(metadata) ==
    {[seq |-> Max(vs), meta |-> metadata, versions |-> vs] : vs \in SUBSET (1..MaxSeq) \ {{}}}

Trees(paths, metadata) ==
    UNION {[ps -> IndexEntries(metadata)] : ps \in SUBSET paths}

InitIngest ==
    /\ Constructed(MaxSeq)
    /\ input \in [kind : {"ingest"}, tree : Trees({"p"}, EmptyDict),
                  snapshot : Trees({"p", "q"}, [versions |-> 2]),
                  existing : SUBSET (1..MaxSeq)]
    /\ output = Nothing

\* The snapshot is message 1 of a folder of its own, and _seen is empty
Ingest ==
    /\ input.kind = "ingest"
    /\ output = Nothing
    /\ output' = [kind |-> "ingested"]
                    @@ ParseSnapshot([tree |-> input.tree, seen |-> {}], 1, input.existing,
                                     <<[meta |-> [fn |-> SnapPath],
                                        snap |-> [tree |-> input.snapshot,
                                                  seen |-> UNION {input.snapshot[fp].versions :
                                                                     fp \in DOMAIN input.snapshot}]]>>)
    /\ UNCHANGED <<mfvars, sessvars, fsvars, capacity, unwritten_bytes, input>>

NextIngest == Ingest

SpecIngest == InitIngest /\ [][NextIngest]_vars

\* The version set an index has for a path, empty when it has no entry
Known(t, file_path) == IF file_path \in DOMAIN t THEN t[file_path].versions ELSE {}

\* The ingest gave the path another latest sequence, or its first
Replaced(file_path) ==
    /\ file_path \in DOMAIN output.tree
    /\ file_path \in DOMAIN input.tree => output.tree[file_path].seq # input.tree[file_path].seq

\* The snapshot's sequence for the path is enumerated and above the index's
Newer(file_path) ==
    /\ input.snapshot[file_path].seq \in input.existing
    /\ file_path \in DOMAIN input.tree => input.snapshot[file_path].seq > input.tree[file_path].seq

\* What C32 says of replacement, of latest_seq and of the enumeration
IngestReplaces ==
    /\ \A fp \in DOMAIN input.snapshot :
          /\ Replaced(fp) <=> Newer(fp)
          /\ Replaced(fp) => /\ output.tree[fp].seq = input.snapshot[fp].seq
                             /\ output.tree[fp].meta = input.snapshot[fp].meta
    /\ \A fp \in DOMAIN input.tree :
          fp \in DOMAIN output.tree /\ output.tree[fp].seq >= input.tree[fp].seq
    /\ \A fp \in DOMAIN output.tree :
          Known(output.tree, fp) \ Known(input.tree, fp) \subseteq input.existing
    /\ DOMAIN output.tree \subseteq DOMAIN input.tree \cup DOMAIN input.snapshot
    /\ \A fp \in DOMAIN input.tree \ DOMAIN input.snapshot : output.tree[fp] = input.tree[fp]

\* C32 as stated: the ingest replaces Index[path] exactly when the
\* snapshot's sequence is enumerated and higher than latest_seq (or the path
\* is absent), never lowers a latest_seq, never brings a sequence that is not
\* enumerated into a version set, and merges the snapshot's versions with
\* the versions already known for the path: afterwards the version set
\* holds the enumerated versions of the snapshot and every known version.
IngestMergesAll ==
    output.kind = "ingested" =>
        /\ IngestReplaces
        /\ \A fp \in DOMAIN input.snapshot :
              (input.snapshot[fp].versions \cap input.existing) \cup Known(input.tree, fp)
                  \subseteq Known(output.tree, fp)

\* C32, amended: replacement, latest_seq and the enumeration as stated; for
\* a path whose sequence in the snapshot is enumerated, the version set holds
\* afterwards the enumerated versions of the snapshot and of the index, and
\* every version the index knew when the entry was not replaced; an entry of
\* the snapshot whose sequence is not enumerated is skipped whole, and leaves
\* the index as it was for that path.
IngestMerges ==
    output.kind = "ingested" =>
        /\ IngestReplaces
        /\ \A fp \in DOMAIN input.snapshot :
              IF input.snapshot[fp].seq \in input.existing
              THEN /\ Known(output.tree, fp) \cap input.existing =
                         (input.snapshot[fp].versions \cup Known(input.tree, fp)) \cap input.existing
                   /\ ~Replaced(fp) => Known(input.tree, fp) \subseteq Known(output.tree, fp)
                   /\ Replaced(fp) => Known(output.tree, fp) \subseteq input.existing
              ELSE /\ fp \in DOMAIN output.tree <=> fp \in DOMAIN input.tree
                   /\ fp \in DOMAIN input.tree => output.tree[fp] = input.tree[fp]

\* The snapshot's entry replaced the index's, and the versions of both are in
\* the new version set
IngestMergesWitness ==
    /\ output.kind = "ingested"
    /\ input.existing = 1..MaxSeq
    /\ "p" \in DOMAIN input.tree /\ input.tree["p"].versions = {1}
    /\ "p" \in DOMAIN input.snapshot /\ input.snapshot["p"].versions = {2, 3}
    /\ output.tree["p"] = [seq |-> 3, meta |-> [versions |-> 2], versions |-> {1, 2, 3}]

\* ------------------------------------------------------ what cleanup deletes
\* The k highest members of a set of sequences; none for k = 0
Highest(versions, k) == {v \in versions : Cardinality({w \in versions : w > v}) < k}

\* The keepers of a path as C33 names them: the `versions` highest sequences
\* of its version set, those of them that the enumeration lists
Keepers(entry, existing) ==
    existing \cap Highest(entry.versions, Get(entry.meta, "versions", DefaultVersions))

AllKeepers(t, existing) == UNION {Keepers(t[fp], existing) : fp \in DOMAIN t}

\* The calls of synchronize with cleanup, and their results
CleanupResults(c) ==
    SyncResults(store, nextSeq, ClientState(c), TRUE, "None", FALSE, buffering[c], {"OK"})

\* C33: a synchronize with cleanup asks the store to delete exactly Seen less
\* the keepers of all paths; so it deletes no keeper, not the latest stored
\* version of a path it has an entry for, and nothing outside Seen; and what
\* was deleted has left Seen when it returns.
CleanupDeletes ==
    \A c \in Clients : \A r \in CleanupResults(c) :
        /\ r.to_delete = r.reached \ AllKeepers(r.scanned, r.existing)
        /\ r.to_delete \cap AllKeepers(r.scanned, r.existing) = {}
        /\ \A fp \in DOMAIN r.scanned :
              PathSeqs(r.flushed, r.existing, fp) # {} =>
                  Max(PathSeqs(r.flushed, r.existing, fp)) \notin r.to_delete
        /\ r.to_delete \subseteq r.reached
        /\ r.seen \cap r.expunged = {}

\* ------------------------------------------------------------ the write buffer
\* One client and a store with room for MaxStored messages, which refuses
\* the appends beyond them.  The application turns config.buffering on and off,
\* may lower config.buffering_max_bytes once, writes and appends to two
\* paths, flushes, synchronizes, and removes paths that its index does not
\* have.  Nothing is deleted from the store.  input keeps, for each path,
\* the contents of the handle closed last (until the path is removed);
\* output names the call made last.
Staging(closed) == [kind |-> "staging", closed |-> closed]

MaxStored == 2

InitBuffer ==
    /\ Constructed(MaxStored)
    /\ input = Staging(EmptyDict)
    /\ output = Nothing

\* What is written to the handles opened with 'w' and with 'a'
Written == <<"x">>
Added == <<" ">>

\* StringIO.write on a new StringIO(contents): the position is 0, and the
\* data replaces what is there (line 99)
WriteAtStart(contents, data) == data \o SubSeq(contents, Len(data) + 1, Len(contents))

\* open(file_path, 'a'), write(data), close
AppendClose(c, file_path, data, answers) ==
    LET o == Open(ConfigFor(c), store, ClientState(c), file_path, "a", NoVersion)
        file == [meta |-> o.metadata, snap |-> NoSnap, data |-> WriteAtStart(o.contents, data)]
        staged == Put(unwritten[c], file_path, file)
        buffered == StaysBuffered(ConfigFor(c), unwritten_bytes[c] + Len(file.data))
    IN /\ o.raised = "none"
       /\ \E f \in SetFile(store, nextSeq, unwritten[c], file_path, file, buffered, answers) :
             Settle(c, f.store, f.next, tree[c], seen[c], staged, Len(file.data), f.un)
       /\ UNCHANGED <<buffering, cfg, sstack>>

\* config.buffering = b
TurnBuffering(b) ==
    /\ buffering[Writer] # b
    /\ buffering' = [buffering EXCEPT ![Writer] = b]
    /\ output' = [kind |-> "config"]
    /\ UNCHANGED <<store, nextSeq, tree, seen, unwritten, log, sessvars, fsvars>>
    /\ UNCHANGED <<capacity, unwritten_bytes, input>>

\* config.buffering_max_bytes = n
SetThreshold(n) ==
    /\ cfg[Writer].buffering_max_bytes = DefaultConfig.buffering_max_bytes
    /\ SetMaxBytes(Writer, n)
    /\ output' = [kind |-> "config"]
    /\ UNCHANGED input

CloseWritten(file_path, data) ==
    /\ unwritten_bytes[Writer] + Len(data) <= MaxBuffered
    /\ WriteClose(Writer, file_path, data, EmptyDict, {"OK"})
    /\ input' = Staging(Put(input.closed, file_path, data))
    /\ output' = [kind |-> "close", file_path |-> file_path, data |-> data]

CloseAppended(file_path, data) ==
    LET o == Open(ConfigFor(Writer), store, ClientState(Writer), file_path, "a", NoVersion)
    IN /\ unwritten_bytes[Writer] + Len(WriteAtStart(o.contents, data)) <= MaxBuffered
       /\ AppendClose(Writer, file_path, data, {"OK"})
       /\ input' = Staging(Put(input.closed, file_path, WriteAtStart(o.contents, data)))
       /\ output' = [kind |-> "append", file_path |-> file_path, had |-> o.contents, data |-> data]

FlushBuffer ==
    /\ FlushFiles(Writer, {"OK"})
    /\ output' = [kind |-> "flush"]
    /\ UNCHANGED input

SyncBuffer ==
    /\ Synchronize(Writer, FALSE, "None", {"OK"})
    /\ output' = [kind |-> "synchronize"]
    /\ UNCHANGED input

RemovePath(file_path) ==
    /\ file_path \notin DOMAIN tree[Writer]
    /\ RemoveFile(Writer, file_path, {"OK"})
    /\ input' = Staging(Del(input.closed, file_path))
    /\ output' = [kind |-> "remove", file_path |-> file_path]

NextBuffer ==
    \/ \E b \in BOOLEAN : TurnBuffering(b)
    \/ \E n \in 1..MaxPayload : SetThreshold(n)
    \/ \E fp \in DataPaths : CloseWritten(fp, Written)
    \/ \E fp \in DataPaths : CloseAppended(fp, Added)
    \/ FlushBuffer
    \/ SyncBuffer
    \/ \E fp \in DataPaths : RemovePath(fp)

SpecBuffer == InitBuffer /\ [][NextBuffer]_vars

\* The bytes of the handles in the buffer `un`
PendingBytes(un) == SumBytes(un, DOMAIN un)

\* Whether the store holds a message of file_path with the contents data
Holds(folder, file_path, data) ==
    \E s \in DOMAIN folder :
        LET m == ParseMessage(ConfigFor(Writer), file_path, folder[s], FALSE, TRUE)
        IN m.raised = "none" /\ m.contents = data

\* C34: a close with buffering off appends every pending handle the store
\* has room for; a close with buffering on appends something if and only if
\* the bytes of the pending handles, the closed one among them, exceed
\* buffering_max_bytes.
FlushPolicy ==
    [][output'.kind \in {"close", "append"} /\ nextSeq <= capacity =>
          LET fp == output'.file_path
              total == PendingBytes(Del(unwritten[Writer], fp)) + Len(input'.closed[fp])
          IN IF buffering[Writer]
             THEN nextSeq' # nextSeq <=> total > cfg[Writer].buffering_max_bytes
             ELSE unwritten'[Writer] = EmptyDict \/ nextSeq' > capacity]_vars

\* C36: the contents of the handle closed last for a path, unless the path
\* was removed since, are pending in the buffer or in a message the store
\* accepted; an entry leaves the buffer only when the store accepts its
\* append, when the path is written again, or when the path is removed.
StagedKept ==
    \A fp \in DOMAIN input.closed :
        \/ fp \in DOMAIN unwritten[Writer] /\ unwritten[Writer][fp].data = input.closed[fp]
        \/ Holds(store, fp, input.closed[fp])

EntryLeaves ==
    \A fp \in DOMAIN unwritten[Writer] :
        fp \notin DOMAIN unwritten'[Writer] \/ unwritten'[Writer][fp] # unwritten[Writer][fp] =>
            \/ Holds(Restrict(store', DOMAIN store' \ DOMAIN store), fp, unwritten[Writer][fp].data)
            \/ output'.kind \in {"close", "append", "remove"} /\ output'.file_path = fp

NoSilentLoss == []StagedKept /\ [][EntryLeaves]_vars

\* A flush the store accepted one append of and refused another
NoSilentLossWitness ==
    /\ output.kind = "flush"
    /\ \E fp, fq \in DOMAIN input.closed :
          /\ fp \in DOMAIN unwritten[Writer]
          /\ fq \notin DOMAIN unwritten[Writer]
          /\ Holds(store, fq, input.closed[fq])

\* C38: after open(path, 'a'), write(b), close, the handle staged for the
\* path holds the contents the path had, followed by b.
AppendAppends ==
    [][output'.kind = "append" /\ output'.file_path \in DOMAIN unwritten'[Writer] =>
          unwritten'[Writer][output'.file_path].data = output'.had \o output'.data]_vars

\* C39: remove of a path the index does not have raises and leaves the
\* index, _seen, the store and the buffer as they were.
RemoveUnindexed ==
    \A fp \in DataPaths \ DOMAIN tree[Writer] :
        \A r \in RemoveResults(View(ConfigFor(Writer), store), nextSeq, ClientState(Writer),
                               fp, {}, buffering[Writer], {"OK"}, "OK") :
            /\ r.raised
            /\ r.tree = tree[Writer] /\ r.seen = seen[Writer]
            /\ r.store = View(ConfigFor(Writer), store) /\ r.next = nextSeq
            /\ r.un = unwritten[Writer]

\* C40: _unwritten_bytes is the sum of the lengths of the handles in the
\* buffer.
CounterIsSum == unwritten_bytes[Writer] = PendingBytes(unwritten[Writer])

\* C35: a synchronize that returns, the store having room for every pending
\* handle and for a snapshot, leaves the buffer empty.
SyncCommits ==
    \A snapshot \in {"None", "True"} :
        \A r \in SyncResults(View(ConfigFor(Writer), store), nextSeq, ClientState(Writer),
                             FALSE, snapshot, FALSE, buffering[Writer], {"OK"}) :
            ~r.raised /\ nextSeq + Cardinality(DOMAIN unwritten[Writer]) <= capacity =>
                r.un = EmptyDict

====
